---- MODULE Spec2Model ----
(***************************************************************************)
(* Reconciliation and categorisation engine of the statement reader         *)
(* (src/api.py, src/app.py) over the transaction records produced by        *)
(* BankStatementReaderAI (src/bank_reader_ai.py).                           *)
(*                                                                         *)
(* Texts the code searches are sequences of one-character strings; dates    *)
(* and amounts are structured texts (layout plus fields) so that the        *)
(* normalisers do real work; money is an integer number of 1/100 units.     *)
(* Optional values are sequences of length 0 (None) or 1.                   *)
(***************************************************************************)
EXTENDS Integers, Sequences, FiniteSets, TLC

(***************************************************************************)
(* Bounds of the model.                                                     *)
(***************************************************************************)
\* largest number of transactions one document holds
MaxTxPerDoc == 2
\* the same, for a document uploaded under the name of a store of the cache folder
MaxStoreTxPerDoc == 1

None == <<>>
Some(v) == <<v>>
IsNone(o) == Len(o) = 0
Val(o) == o[1]

(***************************************************************************)
(* Character-level text helpers (Python str operations).                    *)
(***************************************************************************)
LowerLetters ==
  <<"a","b","c","d","e","f","g","h","i","j","k","l","m",
    "n","o","p","q","r","s","t","u","v","w","x","y","z">>
UpperLetters ==
  <<"A","B","C","D","E","F","G","H","I","J","K","L","M",
    "N","O","P","Q","R","S","T","U","V","W","X","Y","Z">>
Digits == {"0","1","2","3","4","5","6","7","8","9"}

Range(s) == {s[i] : i \in DOMAIN s}

IndexIn(c, s) == CHOOSE i \in DOMAIN s : s[i] = c

\* str.upper() and str.lower() on one character
UpperChar(c) == IF c \in Range(LowerLetters) THEN UpperLetters[IndexIn(c, LowerLetters)] ELSE c
LowerChar(c) == IF c \in Range(UpperLetters) THEN LowerLetters[IndexIn(c, UpperLetters)] ELSE c
Upper(t) == [i \in DOMAIN t |-> UpperChar(t[i])]
Lower(t) == [i \in DOMAIN t |-> LowerChar(t[i])]

IsSpace(c) == c \in {" ", "\n", "\t"}
\* \w of the re module
IsWordChar(c) == c \in Range(LowerLetters) \cup Range(UpperLetters) \cup Digits \cup {"_"}

\* `kw in text`
Contains(text, kw) ==
  \E i \in 1..(Len(text) - Len(kw) + 1) : SubSeq(text, i, i + Len(kw) - 1) = kw

\* str.strip()
RECURSIVE LStrip(_)
LStrip(t) == IF t # <<>> /\ IsSpace(Head(t)) THEN LStrip(Tail(t)) ELSE t
RECURSIVE RStrip(_)
RStrip(t) ==
  IF t # <<>> /\ IsSpace(t[Len(t)]) THEN RStrip(SubSeq(t, 1, Len(t) - 1)) ELSE t
Strip(t) == RStrip(LStrip(t))

\* re.sub(r'\s+', ' ', t)
RECURSIVE CollapseSpaces(_)
CollapseSpaces(t) ==
  IF t = <<>> THEN <<>>
  ELSE IF IsSpace(Head(t))
       THEN <<" ">> \o CollapseSpaces(LStrip(Tail(t)))
       ELSE <<Head(t)>> \o CollapseSpaces(Tail(t))

\* ' '.join(parts)
RECURSIVE JoinSpace(_)
JoinSpace(parts) ==
  IF parts = <<>> THEN <<>>
  ELSE IF Len(parts) = 1 THEN parts[1]
  ELSE parts[1] \o <<" ">> \o JoinSpace(Tail(parts))

\* the Python string a character sequence spells
RECURSIVE Str(_)
Str(t) == IF t = <<>> THEN "" ELSE Head(t) \o Str(Tail(t))

(***************************************************************************)
(* BankStatementReaderAI.normalize_date_string.  A date text is its layout  *)
(* (the one strptime format whose shape it has, "" for the empty text,      *)
(* "other" for a text no format has the shape of), its day, month and year  *)
(* fields as written, and the ordinal suffix after the day, if any.  A year  *)
(* field of a 4-digit format is written with four digits ("0999" is 999).   *)
(***************************************************************************)
date_formats ==
  << "%Y-%m-%d", "%d/%m/%Y", "%d-%m-%Y", "%d.%m.%Y", "%d/%m/%y", "%d-%m-%y",
     "%d.%m.%y", "%b %d, %Y", "%b %d,%Y", "%B %d, %Y", "%B %d,%Y", "%d %b %Y",
     "%d %B %Y", "%d-%b-%Y", "%d-%b-%y", "%d/%b/%Y", "%d/%b/%y" >>

TwoDigitYearFormats == {"%d/%m/%y", "%d-%m-%y", "%d.%m.%y", "%d-%b-%y", "%d/%b/%y"}

DateText(layout, d, m, y, suffix) ==
  [layout |-> layout, d |-> d, m |-> m, y |-> y, suffix |-> suffix]
EmptyDate == DateText("", 0, 0, 0, "")
IsoDate(y, m, d) == DateText("%Y-%m-%d", d, m, y, "")

IsLeap(y) == (y % 4 = 0 /\ y % 100 # 0) \/ y % 400 = 0
DaysInMonth(m, y) ==
  IF m = 2 THEN (IF IsLeap(y) THEN 29 ELSE 28)
  ELSE IF m \in {4, 6, 9, 11} THEN 30 ELSE 31

\* the year datetime.strptime gives a year field under a format
StrptimeYear(fmt, y) ==
  IF fmt \in TwoDigitYearFormats THEN (IF y <= 68 THEN 2000 + y ELSE 1900 + y) ELSE y

\* datetime.strptime(cleaned, fmt) succeeds: %Y reads four digits and the
\* year of a datetime is 1..9999
Strptime(cleaned, fmt) ==
  /\ cleaned.layout = fmt
  /\ cleaned.suffix = ""
  /\ IF fmt \in TwoDigitYearFormats THEN cleaned.y \in 0..99 ELSE cleaned.y \in 1..9999
  /\ cleaned.m \in 1..12
  /\ cleaned.d \in 1..DaysInMonth(cleaned.m, StrptimeYear(fmt, cleaned.y))

\* a variant of Strftime that writes the day before the month
Strftime_DayFirst(year, m, d) == IsoDate(year, d, m)

\* parsed.strftime("%Y-%m-%d"): %Y writes the year without leading zeros, so
\* a year below 1000 gives a text such as "999-02-01" that no format reads
Strftime(year, m, d) ==
  IF year < 1000 THEN DateText("other", d, m, year, "") ELSE IsoDate(year, m, d)

RECURSIVE TryFormats(_, _)
TryFormats(cleaned, k) ==
  IF k > Len(date_formats) THEN None
  ELSE IF Strptime(cleaned, date_formats[k])
       THEN LET year == StrptimeYear(date_formats[k], cleaned.y)
                fixed == IF date_formats[k] \in TwoDigitYearFormats /\ year < 1950
                         THEN year + 2000 ELSE year
            IN  Some(Strftime(fixed, cleaned.m, cleaned.d))
       ELSE TryFormats(cleaned, k + 1)

normalize_date_string(date_str) ==
  IF date_str.layout = "" THEN None
  ELSE TryFormats([date_str EXCEPT !.suffix = ""], 1)

Pad2(n) == IF n < 10 THEN "0" \o ToString(n) ELSE ToString(n)
\* the characters of a "%Y-%m-%d" text
IsoString(t) == ToString(t.y) \o "-" \o Pad2(t.m) \o "-" \o Pad2(t.d)

(***************************************************************************)
(* BankStatementReaderAI.normalize_amount_value.  An amount text is a       *)
(* character sequence; the value is an integer number of hundredths.        *)
(***************************************************************************)
DigitSeq == <<"0","1","2","3","4","5","6","7","8","9">>
DigitVal(c) == IndexIn(c, DigitSeq) - 1

\* re.sub(r'[^\d\.\-]', '', s)
KeepNumeric(t) == SelectSeq(t, LAMBDA c : c \in Digits \cup {".", "-"})

RECURSIVE DigitsValue(_)
DigitsValue(ds) ==
  IF ds = <<>> THEN 0 ELSE DigitsValue(SubSeq(ds, 1, Len(ds) - 1)) * 10 + DigitVal(ds[Len(ds)])

\* float(cleaned) does not raise ValueError: [-]digits[.digits] with a digit
IsFloatLiteral(t) ==
  LET body == IF t # <<>> /\ Head(t) = "-" THEN Tail(t) ELSE t
      dots == SelectSeq(body, LAMBDA c : c = ".")
  IN  /\ \A i \in DOMAIN body : body[i] # "-"
      /\ Len(dots) <= 1
      /\ \E i \in DOMAIN body : body[i] \in Digits

\* the index of the decimal point, or one past the end
DotIndex(body) ==
  IF \E i \in DOMAIN body : body[i] = "."
  THEN CHOOSE i \in DOMAIN body : body[i] = "." ELSE Len(body) + 1

\* the k-th decimal, 0 when there is none
FracDigit(frac, k) == IF Len(frac) >= k THEN DigitVal(frac[k]) ELSE 0

\* round(x, 2) in hundredths: a third decimal above 5 rounds up and one below
\* 5 rounds down (at exactly 5 the binary value of the float decides; the
\* amount texts of the model have no such decimal)
Magnitude(whole, frac) ==
  DigitsValue(whole) * 100 + FracDigit(frac, 1) * 10 + FracDigit(frac, 2)
    + (IF FracDigit(frac, 3) >= 5 THEN 1 ELSE 0)

SplitMagnitude(body, dot) ==
  Magnitude(SubSeq(body, 1, dot - 1), SubSeq(body, dot + 1, Len(body)))

\* round(float(cleaned), 2) in hundredths
RoundedHundredths(t) ==
  IF Head(t) = "-" THEN 0 - SplitMagnitude(Tail(t), DotIndex(Tail(t)))
  ELSE SplitMagnitude(t, DotIndex(t))

NA == <<"N","/","A">>

normalize_amount_value(amount_str) ==
  IF amount_str \in {<<>>, NA} THEN None
  ELSE LET cleaned == KeepNumeric(amount_str)
       IN  IF cleaned \in {<<>>, <<"-">>, <<".">>, <<"-", ".">>} THEN None
           ELSE IF IsFloatLiteral(cleaned) THEN Some(RoundedHundredths(cleaned))
           ELSE None

\* f"{value:.2f}" of a value in hundredths
Fixed2(c) ==
  LET mag == IF c < 0 THEN 0 - c ELSE c
  IN  (IF c < 0 THEN "-" ELSE "") \o ToString(mag \div 100) \o "." \o Pad2(mag % 100)

(***************************************************************************)
(* The transactions and documents of the model.  Each transaction has the   *)
(* shape extract_transactions gives it: the date is the normalised date or, *)
(* when the matched text is no calendar date, that text; amountValue is the *)
(* normalised amount or None.                                               *)
(***************************************************************************)
Transaction(date, originalDate, description, type, amount, amountValue) ==
  [ date |-> date, originalDate |-> originalDate, time |-> "",
    description |-> description, type |-> type, amount |-> amount,
    currency |-> "INR", amountValue |-> amountValue,
    rawLine |-> description \o <<" ">> \o KeepNumeric(amount), tags |-> <<>> ]

Rs250 == <<"R","s","2","5","0",".","0","0">>
Rs500 == <<"R","s","5","0","0",".","0","0">>

TxSwiggy ==
  Transaction(IsoDate(2024, 2, 1), DateText("%d/%m/%y", 1, 2, 24, ""),
              <<"S","W","I","G","G","Y">>, "DEBIT", Rs250, normalize_amount_value(Rs250))
TxNetflix ==
  Transaction(IsoDate(2024, 2, 1), DateText("%d/%m/%Y", 1, 2, 2024, ""),
              <<"N","E","T","F","L","I","X">>, "DEBIT", Rs250, normalize_amount_value(Rs250))
\* 31/02/24 matches the date pattern of the parser and is no calendar date
TxSalary ==
  Transaction(DateText("%d/%m/%y", 31, 2, 24, ""), DateText("%d/%m/%y", 31, 2, 24, ""),
              <<"S","A","L","A","R","Y">>, "CREDIT", Rs500, normalize_amount_value(Rs500))
\* a block in which no amount was found
TxPetrol ==
  Transaction(IsoDate(2024, 2, 1), DateText("%d/%m/%y", 1, 2, 24, ""),
              <<"P","E","T","R","O","L">>, "DEBIT", <<>>, None)

\* another day, the same amount
TxRent ==
  Transaction(IsoDate(2024, 3, 5), DateText("%d-%b-%Y", 5, 3, 2024, ""),
              <<"R","E","N","T">>, "DEBIT", Rs250, normalize_amount_value(Rs250))

TxPool == {TxSwiggy, TxNetflix, TxSalary, TxPetrol, TxRent}


(***************************************************************************)
(* BankStatementReaderAI.parse_with_ai on a block of a bank account         *)
(* statement.  A block is the sequence of its characters; a place in it is  *)
(* an offset from 0, as in the re module, and a match is its start and its  *)
(* end (the offset after its last character).  The blocks of the model have *)
(* no rupee sign, no "|" and no ":", so the wallet patterns (lines 254,     *)
(* 324-344, 432) and the time patterns (238-240) find nothing in them, and  *)
(* the named-entity backend reports no entity in them.                      *)
(***************************************************************************)
\* raw_line[p], "" beyond the end
At(t, p) == IF p >= 0 /\ p < Len(t) THEN t[p + 1] ELSE ""
\* raw_line[a:b]: a slice ends where the text ends
Slice(t, a, b) == SubSeq(t, a + 1, IF b > Len(t) THEN Len(t) ELSE b)
Match(start, end) == [start |-> start, end |-> end]
\* the leftmost of the offsets a pattern matches at
Leftmost(hits) == CHOOSE q \in hits : \A r \in hits : q <= r
\* match.group()
Group(t, m) == Slice(t, m.start, m.end)

IsDigit(c) == c \in Digits
\* \b at offset p
WordBoundary(t, p) == IsWordChar(At(t, p - 1)) # IsWordChar(At(t, p))

\* hdfc_date_pattern = r'\b\d{2}/\d{2}/\d{2}\b' matches at offset p
HdfcDateAt(t, p) ==
  /\ \A k \in {0, 1, 3, 4, 6, 7} : IsDigit(At(t, p + k))
  /\ At(t, p + 2) = "/" /\ At(t, p + 5) = "/"
  /\ WordBoundary(t, p) /\ WordBoundary(t, p + 8)

\* list(re.finditer(hdfc_date_pattern, raw_line)), from offset p on
RECURSIVE HdfcDates(_, _)
DatesFrom(t, hits) ==
  IF hits = {} THEN <<>>
  ELSE <<Match(Leftmost(hits), Leftmost(hits) + 8)>> \o HdfcDates(t, Leftmost(hits) + 8)
HdfcDates(t, p) == DatesFrom(t, {q \in p..(Len(t) - 8) : HdfcDateAt(t, q)})

\* the offset after the run of [\d,] that starts at offset p
RECURSIVE RunEnd(_, _)
RunEnd(t, p) == IF IsDigit(At(t, p)) \/ At(t, p) = "," THEN RunEnd(t, p + 1) ELSE p

\* the run of [\d,] that ends before offset q is followed by \.\d{2}
DecimalsAt(t, q) == At(t, q) = "." /\ IsDigit(At(t, q + 1)) /\ IsDigit(At(t, q + 2))

\* list(re.finditer(hdfc_amount_pattern, raw_line)) for
\* hdfc_amount_pattern = r'[\d,]+\.\d{2}', from offset p on
RECURSIVE HdfcAmounts(_, _)
AmountsFrom(t, hits) ==
  IF hits = {} THEN <<>>
  ELSE <<Match(Leftmost(hits), RunEnd(t, Leftmost(hits)) + 3)>>
       \o HdfcAmounts(t, RunEnd(t, Leftmost(hits)) + 3)
HdfcAmounts(t, p) ==
  AmountsFrom(t, {q \in p..(Len(t) - 1) : RunEnd(t, q) > q /\ DecimalsAt(t, RunEnd(t, q))})

\* value.replace(',', '')
WithoutCommas(t) == SelectSeq(t, LAMBDA c : c # ",")

\* the digits before the decimal point of an amount, without leading zeros
RECURSIVE DropZeros(_)
DropZeros(ds) == IF ds # <<>> /\ Head(ds) = "0" THEN DropZeros(Tail(ds)) ELSE ds
WholeDigits(value) == DropZeros(SubSeq(WithoutCommas(value), 1, Len(WithoutCommas(value)) - 3))

\* float(value.replace(',', '')) of a match of hdfc_amount_pattern, in
\* hundredths; the amounts compared are below 21,474,836.48
Num(value) == RoundedHundredths(WithoutCommas(value))

\* lo <= float(value.replace(',', '')) <= hi for whole numbers lo and hi below 10^9
Between(value, lo, hi) ==
  /\ Len(WholeDigits(value)) <= 9
  /\ DigitsValue(WholeDigits(value)) >= lo
  /\ \/ DigitsValue(WholeDigits(value)) < hi
     \/ /\ DigitsValue(WholeDigits(value)) = hi
        /\ SubSeq(value, Len(value) - 1, Len(value)) = <<"0", "0">>

\* lines 283-298: the amounts after the value date, by position
AmountEntry(t, m) == [pos |-> m.start, value |-> Group(t, m), num |-> Num(Group(t, m))]

AmountsAfter(t, amount_matches, value_date_pos) ==
  LET kept == SelectSeq(amount_matches,
                        LAMBDA m : m.start > value_date_pos /\ Between(Group(t, m), 1, 10000000))
  IN  [i \in DOMAIN kept |-> AmountEntry(t, kept[i])]

\* lines 196-218: the block is no transaction
summary_keywords ==
  << <<"S","T","A","T","E","M","E","N","T","S","U","M","M","A","R","Y">>,
     <<"S","T","A","T","E","M","E","N","T"," ","S","U","M","M","A","R","Y">>,
     <<"O","P","E","N","I","N","G","B","A","L","A","N","C","E">>,
     <<"O","P","E","N","I","N","G"," ","B","A","L","A","N","C","E">>,
     <<"C","L","O","S","I","N","G","B","A","L","A","N","C","E">>,
     <<"C","L","O","S","I","N","G"," ","B","A","L","A","N","C","E">> >>

Skipped(raw_line) ==
  \/ Len(Strip(raw_line)) < 10
  \/ \E k \in DOMAIN summary_keywords : Contains(Upper(raw_line), summary_keywords[k])
  \/ /\ \/ Contains(Upper(raw_line), <<"D","R","C","O","U","N","T">>)
        \/ Contains(Upper(raw_line), <<"C","R","C","O","U","N","T">>)
     /\ \/ Contains(Upper(raw_line), <<"D","E","B","I","T","S">>)
        \/ Contains(Upper(raw_line), <<"C","R","E","D","I","T","S">>)

\* date_patterns[0] = r'(\d{2}[\/\-]\d{2}[\/\-]\d{4})' matches at offset p
LongDateAt(t, p) ==
  /\ \A k \in {0, 1, 3, 4, 6, 7, 8, 9} : IsDigit(At(t, p + k))
  /\ At(t, p + 2) \in {"/", "-"} /\ At(t, p + 5) \in {"/", "-"}

\* date_patterns[1] = r'(\d{2}\/\d{2}\/\d{2})' matches at offset p
ShortDateAt(t, p) ==
  /\ \A k \in {0, 1, 3, 4, 6, 7} : IsDigit(At(t, p + k))
  /\ At(t, p + 2) = "/" /\ At(t, p + 5) = "/"

MonthNames ==
  << <<"J","A","N">>, <<"F","E","B">>, <<"M","A","R">>, <<"A","P","R">>, <<"M","A","Y">>,
     <<"J","U","N">>, <<"J","U","L">>, <<"A","U","G">>, <<"S","E","P","T">>, <<"S","E","P">>,
     <<"O","C","T">>, <<"N","O","V">>, <<"D","E","C">> >>
MonthNumber == <<1, 2, 3, 4, 5, 6, 7, 8, 9, 9, 10, 11, 12>>

\* the offset after the run of white space that starts at offset p
RECURSIVE SpacesEnd(_, _)
SpacesEnd(t, p) == IF IsSpace(At(t, p)) THEN SpacesEnd(t, p + 1) ELSE p

\* the end of a match of \s+\d{1,2},\s+\d{4} at offset p, or -1
DayYearEnd(t, p) ==
  LET d == SpacesEnd(t, p)
      c == IF IsDigit(At(t, d + 1)) /\ At(t, d + 2) = "," THEN d + 2 ELSE d + 1
      y == SpacesEnd(t, c + 1)
  IN  IF /\ d > p /\ IsDigit(At(t, d)) /\ At(t, c) = ","
         /\ y > c + 1 /\ \A k \in 0..3 : IsDigit(At(t, y + k))
      THEN y + 4 ELSE -1

\* the month names of date_patterns[2] that match at offset p, in the order of the pattern
MonthsAt(t, p) ==
  SelectSeq([k \in DOMAIN MonthNames |-> k],
            LAMBDA k : /\ Upper(Slice(t, p, p + Len(MonthNames[k]))) = MonthNames[k]
                       /\ DayYearEnd(t, p + Len(MonthNames[k])) >= 0)

\* re.search(pattern, raw_line, re.IGNORECASE) for the three date patterns: the
\* leftmost match from offset p on, or None
FixedMatch(hits, length) ==
  IF hits = {} THEN None ELSE Some(Match(Leftmost(hits), Leftmost(hits) + length))

SearchLongDate(t, p) == FixedMatch({q \in p..(Len(t) - 10) : LongDateAt(t, q)}, 10)

SearchShortDate(t, p) == FixedMatch({q \in p..(Len(t) - 8) : ShortDateAt(t, q)}, 8)

MonthMatch(t, q) == Some(Match(q, DayYearEnd(t, q + Len(MonthNames[Head(MonthsAt(t, q))]))))
MonthMatchIn(t, hits) == IF hits = {} THEN None ELSE MonthMatch(t, Leftmost(hits))

SearchMonthDate(t, p) == MonthMatchIn(t, {q \in p..(Len(t) - 1) : MonthsAt(t, q) # <<>>})

\* the two digits at offset p, as a number
TwoDigits(t, p) == DigitsValue(Slice(t, p, p + 2))

\* the date text a match of one of the date patterns is
LongDateText(g) ==
  DateText(IF g[3] = "/" /\ g[6] = "/" THEN "%d/%m/%Y"
           ELSE IF g[3] = "-" /\ g[6] = "-" THEN "%d-%m-%Y" ELSE "other",
           TwoDigits(g, 0), TwoDigits(g, 3), DigitsValue(Slice(g, 6, 10)), "")
ShortDateText(g) == DateText("%d/%m/%y", TwoDigits(g, 0), TwoDigits(g, 3), TwoDigits(g, 6), "")
MonthDateText(g) ==
  LET k     == Head(MonthsAt(g, 0))
      d     == SpacesEnd(g, Len(MonthNames[k]))
      comma == IF At(g, d + 1) = "," THEN d + 1 ELSE d + 2
  IN  DateText("%b %d, %Y", DigitsValue(Slice(g, d, comma)), MonthNumber[k],
               DigitsValue(Slice(g, Len(g) - 4, Len(g))), "")

\* lines 224-235: date = match.group(0) of the first pattern that matches, or None
ExtractedDate(raw_line) ==
  IF ~IsNone(SearchLongDate(raw_line, 0))
  THEN Some(LongDateText(Group(raw_line, Val(SearchLongDate(raw_line, 0)))))
  ELSE IF ~IsNone(SearchShortDate(raw_line, 0))
  THEN Some(ShortDateText(Group(raw_line, Val(SearchShortDate(raw_line, 0)))))
  ELSE IF ~IsNone(SearchMonthDate(raw_line, 0))
  THEN Some(MonthDateText(Group(raw_line, Val(SearchMonthDate(raw_line, 0)))))
  ELSE None

\* lines 270-319: the amount of a block in the layout of an account statement
HdfcAmount(raw_line, date_matches, amount_matches) ==
  IF Len(date_matches) >= 2 /\ Len(amount_matches) >= 2
  THEN LET after == AmountsAfter(raw_line, amount_matches, date_matches[2].end)
       IN  IF Len(after) >= 2 THEN Some(WithoutCommas(after[1].value)) ELSE None
  ELSE None

\* ref_no_pattern = r'\b(0\d{9,}|\d{12,})\b' matches at offset p: a whole run
\* of digits of the length the pattern asks for
RECURSIVE DigitsEnd(_, _)
DigitsEnd(t, p) == IF IsDigit(At(t, p)) THEN DigitsEnd(t, p + 1) ELSE p

RefNoAt(t, p) ==
  /\ IsDigit(At(t, p)) /\ ~IsWordChar(At(t, p - 1)) /\ ~IsWordChar(At(t, DigitsEnd(t, p)))
  /\ DigitsEnd(t, p) - p >= (IF At(t, p) = "0" THEN 10 ELSE 12)

\* re.search(ref_no_pattern, rest).start(), or -1
LeftmostOr(hits, none) == IF hits = {} THEN none ELSE Leftmost(hits)
SearchRefNo(rest, p) == LeftmostOr({q \in p..(Len(rest) - 1) : RefNoAt(rest, q)}, -1)

\* re.search(r'[A-Za-z]{3,}', text)
HasThreeLetters(t) ==
  \E p \in 0..(Len(t) - 3) : \A k \in 0..2 : At(t, p + k) \in Range(LowerLetters) \cup Range(UpperLetters)

\* lines 406-409: the text after the last amount of the block
additional_info(raw_line, amount_matches) ==
  IF Len(amount_matches) >= 2
  THEN Strip(Slice(raw_line, amount_matches[Len(amount_matches)].end, Len(raw_line)))
  ELSE <<>>

\* lines 383-399: the text between the first date and the reference number
StructuralDescription(raw_line, date_matches) ==
  IF date_matches = <<>> THEN <<>>
  ELSE LET desc_start == date_matches[1].end
           ref_start  == SearchRefNo(Slice(raw_line, desc_start, Len(raw_line)), 0)
       IN  IF ref_start < 0 THEN <<>>
           ELSE CollapseSpaces(Strip(Slice(raw_line, desc_start, desc_start + ref_start)))

\* The blocks whose description the model gives.  In a Structured block the
\* description is the text before a reference number, and no words follow the
\* balance (lines 411-426 and the later layers of the description, 428-505,
\* do nothing).
Structured(raw_line) ==
  /\ \A i \in DOMAIN raw_line : raw_line[i] \notin {"|", "[", "]", ":", "$"}
  /\ StructuralDescription(raw_line, HdfcDates(raw_line, 0)) # <<>>
  /\ ~HasThreeLetters(additional_info(raw_line, HdfcAmounts(raw_line, 0)))

\* A block of brackets, bars and white space: no pattern of lines 383-470
\* matches, and the last resort (476-501) and the clean-up of lines 504-505,
\* re.sub(r'[|\[\]]', '', description).strip(), leave nothing.
Brackets(raw_line) ==
  \A i \in DOMAIN raw_line : raw_line[i] \in {"|", "[", "]", " "}

\* lines 380-506: description
Description(raw_line, date_matches) ==
  IF Brackets(raw_line) THEN <<>> ELSE StructuralDescription(raw_line, date_matches)

Abs(n) == IF n < 0 THEN -n ELSE n

\* `any(keyword in text for keyword in keywords)`
AnyIn(keywords, text) == \E k \in DOMAIN keywords : Contains(text, keywords[k])

\* line 591
credit_keywords ==
  << <<"c","r","e","d","i","t">>, <<"d","e","p","o","s","i","t">>, <<"r","e","c","e","i","v","e","d">>, <<"r","e","f","u","n","d">>, <<"i","n","t","e","r","e","s","t">>, <<"s","a","l","a","r","y">>,
     <<"d","i","v","i","d","e","n","d">>, <<"a","c","r","c","-">>, <<"a","c","h","c","-">> >>
\* lines 604-609
credit_patterns == << <<"r","d","a","c","r">>, <<"t","o","k","y","c">>, <<"c","o","m","p">>, <<"r","d","a","c","r","t","o","k","y","c">> >>
\* line 658
balance_only_keywords ==
  << <<"c","r","e","d","i","t">>, <<"d","e","p","o","s","i","t">>, <<"r","e","c","e","i","v","e","d">>, <<"r","e","f","u","n","d">>, <<"i","n","t","e","r","e","s","t">>, <<"a","c","h","c","-">> >>
\* line 712
CREDIT_WORDS ==
  << <<"C","R","E","D","I","T">>, <<"D","E","P","O","S","I","T">>, <<"R","E","C","E","I","V","E","D">>, <<"R","E","F","U","N","D">>, <<"A","C","H"," ","C","-">>, <<"A","C","H","C","-">>,
     <<"I","N","T","E","R","E","S","T">>, <<"S","A","L","A","R","Y">>, <<"D","I","V","I","D","E","N","D">> >>

\* a variant of InstrumentType that reads no instrument code
InstrumentType_Unread(line_upper) == "UNKNOWN"

\* lines 521-524: the instrument code of the block, "UNKNOWN" without one
InstrumentType(line_upper) ==
  IF Contains(line_upper, <<"A","C","H","C","-">>) \/ Contains(line_upper, <<"A","C","H"," ","C","-">>) THEN "CREDIT"
  ELSE IF Contains(line_upper, <<"A","C","H","D","-">>) \/ Contains(line_upper, <<"A","C","H"," ","D","-">>) THEN "DEBIT"
  ELSE "UNKNOWN"

\* lines 594-611
is_likely_credit(line_lower) ==
  AnyIn(credit_keywords, line_lower) \/ AnyIn(credit_patterns, line_lower)

\* a variant of OtherIndicators that reads the words of the block only
OtherIndicators_Words(spacing_from_value_date, line_lower) ==
  IF is_likely_credit(line_lower) THEN "CREDIT" ELSE "DEBIT"

\* lines 633-654: the indicators other than the balance
OtherIndicators(spacing_from_value_date, line_lower) ==
  IF spacing_from_value_date > 40 THEN "CREDIT"
  ELSE IF is_likely_credit(line_lower) THEN "CREDIT"
  ELSE "DEBIT"

\* lines 572-654: two amounts after the value date, the amount and the balance.
\* abs(abs(balance_change) - transaction_amount_val) < 0.01 is the equality of
\* two numbers of hundredths (the model has no pair a hundredth apart, which
\* binary rounding would decide).
BalanceDelta(after, value_date_pos, line_lower, previous) ==
  IF ~IsNone(previous)
     /\ Abs(after[Len(after)].num - Val(previous)) = after[1].num
  THEN IF after[Len(after)].num - Val(previous) > 0 THEN "CREDIT" ELSE "DEBIT"
  ELSE OtherIndicators(after[1].pos - value_date_pos, line_lower)

\* lines 533-661: the type the amounts after the value date give
ColumnType(raw_line, after, value_date_pos, previous) ==
  IF Len(after) >= 3 THEN "DEBIT"
  ELSE IF Len(after) = 2 THEN BalanceDelta(after, value_date_pos, Lower(raw_line), previous)
  ELSE IF Len(after) = 1
       THEN IF AnyIn(balance_only_keywords, Lower(raw_line)) THEN "CREDIT" ELSE "DEBIT"
  ELSE "UNKNOWN"

\* lines 664-706: the type the number of amounts in the block gives
valid_amounts(raw_line, amount_matches) ==
  SelectSeq(amount_matches, LAMBDA m : Between(Group(raw_line, m), 1, 10000000))

CountType(raw_line, amount_matches) ==
  IF Len(valid_amounts(raw_line, amount_matches)) >= 3 THEN "DEBIT"
  ELSE IF Len(valid_amounts(raw_line, amount_matches)) = 2
       THEN IF AnyIn(credit_keywords, Lower(raw_line)) THEN "CREDIT" ELSE "DEBIT"
  ELSE "UNKNOWN"

\* a variant of KeywordType without the default
KeywordType_NoDefault(line_upper) ==
  IF AnyIn(CREDIT_WORDS, line_upper) THEN "CREDIT" ELSE "UNKNOWN"

\* lines 709-717
KeywordType(line_upper) == IF AnyIn(CREDIT_WORDS, line_upper) THEN "CREDIT" ELSE "DEBIT"

Otherwise(tx_type, next) == IF tx_type # "UNKNOWN" THEN tx_type ELSE next

\* lines 510-717: tx_type
TypeOf(raw_line, date_matches, amount_matches, previous) ==
  IF date_matches = <<>> THEN KeywordType(Upper(raw_line))
  ELSE Otherwise(InstrumentType(Upper(raw_line)),
       Otherwise(IF Len(date_matches) >= 2 /\ Len(amount_matches) >= 2
                 THEN ColumnType(raw_line,
                                 AmountsAfter(raw_line, amount_matches, date_matches[2].end),
                                 date_matches[2].end, previous)
                 ELSE "UNKNOWN",
       Otherwise(CountType(raw_line, amount_matches),
                 KeywordType(Upper(raw_line)))))

\* lines 720-724 ('$' is in no block of the model)
CurrencyOf(raw_line) ==
  IF Contains(Upper(raw_line), <<"U","S","D">>) THEN "USD"
  ELSE IF Contains(Upper(raw_line), <<"E","U","R">>) THEN "EUR" ELSE "INR"

Display(amt) == IF amt = <<>> THEN <<"[","e","m","p","t","y","]">> ELSE amt

\* lines 726-805: the block with its withdrawal, deposit and balance columns named
Reconstructed(raw_line, date_matches, amount_matches, tx_type) ==
  IF Len(date_matches) >= 2 /\ Len(amount_matches) >= 2
     /\ Len(AmountsAfter(raw_line, amount_matches, date_matches[2].end)) >= 2
  THEN LET after == AmountsAfter(raw_line, amount_matches, date_matches[2].end)
           after_balance == Strip(Slice(raw_line, amount_matches[Len(amount_matches)].end, Len(raw_line)))
           withdrawal_amt == IF Len(after) >= 3 \/ tx_type = "DEBIT" THEN after[1].value ELSE <<>>
           deposit_amt == IF Len(after) >= 3 THEN after[2].value
                          ELSE IF tx_type = "DEBIT" THEN <<>> ELSE after[1].value
       IN  RStrip(Slice(raw_line, 0, date_matches[2].end))
             \o <<" ","|"," ","W","i","t","h","d","r","a","w","a","l",":"," ">> \o Display(withdrawal_amt)
             \o <<" ","|"," ","D","e","p","o","s","i","t",":"," ">> \o Display(deposit_amt)
             \o <<" ","|"," ","B","a","l","a","n","c","e",":"," ">> \o after[Len(after)].value
             \o (IF after_balance = <<>> THEN <<>> ELSE <<" ","|"," ">> \o after_balance)
  ELSE raw_line

\* lines 807-821: the result of parse_with_ai
Result(date, description, tx_type, amount, currency, rawLine) ==
  [ date |-> IF ~IsNone(date) /\ ~IsNone(normalize_date_string(Val(date)))
             THEN Val(normalize_date_string(Val(date)))
             ELSE IF IsNone(date) THEN EmptyDate ELSE Val(date),
    originalDate |-> IF IsNone(date) THEN EmptyDate ELSE Val(date),
    time |-> "",
    description |-> description,
    type |-> tx_type,
    amount |-> IF IsNone(amount) THEN <<>> ELSE Val(amount),
    currency |-> currency,
    amountValue |-> IF IsNone(amount) THEN None ELSE normalize_amount_value(Val(amount)),
    rawLine |-> rawLine ]

\* what one block scans to: the matches of hdfc_date_pattern and hdfc_amount_pattern
ParseScanned(raw_line, date_matches, amount_matches, previous) ==
  Result(ExtractedDate(raw_line),
         Description(raw_line, date_matches),
         TypeOf(raw_line, date_matches, amount_matches, previous),
         HdfcAmount(raw_line, date_matches, amount_matches),
         CurrencyOf(raw_line),
         Reconstructed(raw_line, date_matches, amount_matches,
                       TypeOf(raw_line, date_matches, amount_matches, previous)))

\* a variant of ResultOrNone that wants an amount
ResultOrNone_NeedsAmount(result) ==
  IF result.amount = <<>> THEN None ELSE Some(result)

\* line 831: return result if (date or amount or description) else None
ResultOrNone(result) ==
  IF result.originalDate = EmptyDate /\ result.amount = <<>> /\ result.description = <<>>
  THEN None ELSE Some(result)

\* parse_with_ai(raw_line, previous_balance) for a block that is skipped,
\* Structured or of Brackets: None, or the transaction of the block
parse_with_ai(raw_line, previous) ==
  IF Skipped(raw_line) THEN None
  ELSE ResultOrNone(ParseScanned(raw_line, HdfcDates(raw_line, 0), HdfcAmounts(raw_line, 0),
                                 previous))
(***************************************************************************)
(* Heuristic tables of src/api.py.                                          *)
(***************************************************************************)
SUBSCRIPTION_KEYWORDS ==
  <<
    <<"S","U","B","S","C","R","I","P","T","I","O","N">>,
    <<"S","U","B","S","C","R">>,
    <<"M","E","M","B","E","R","S","H","I","P">>,
    <<"R","E","N","E","W","A","L">>,
    <<"A","U","T","O"," ","P","A","Y">>,
    <<"A","U","T","O","P","A","Y">>,
    <<"A","U","T","O","-","D","E","B","I","T">>,
    <<"R","E","C","U","R","R","I","N","G">>,
    <<"M","O","N","T","H","L","Y"," ","P","L","A","N">>,
    <<"M","O","N","T","H","L","Y"," ","F","E","E">>,
    <<"M","O","N","T","H","L","Y"," ","C","H","A","R","G","E","S">>,
    <<"P","L","A","N"," ","F","E","E">>,
    <<"U","P","I"," ","A","U","T","O","P","A","Y">>,
    <<"U","P","I","-","A","U","T","O","P","A","Y">>,
    <<"S","I","-","H","D","F","C">>,
    <<"S","T","A","N","D","I","N","G"," ","I","N","S","T","R","U","C","T","I","O","N">>,
    <<"M","A","N","D","A","T","E">>,
    <<"E","-","N","A","C","H">>,
    <<"E","N","A","C","H">>,
    <<"S","I"," ","B","I","L","L","D","E","S","K">>,
    <<"A","U","T","O"," ","P","A","Y","M","E","N","T">>,
    <<"A","U","T","O"," ","P","A","Y","M","E","N","T">>,
    <<"A","U","T","O","M","A","T","I","C"," ","P","A","Y","M","E","N","T">>,
    <<"A","U","T","O","-","R","E","N","E","W">>,
    <<"A","U","T","O"," ","R","E","N","E","W">>
>>

SUBSCRIPTION_MERCHANTS ==
  <<
    <<"N","E","T","F","L","I","X">>,
    <<"S","P","O","T","I","F","Y">>,
    <<"Y","O","U","T","U","B","E">>,
    <<"G","O","O","G","L","E"," ","S","T","O","R","A","G","E">>,
    <<"G","O","O","G","L","E"," ","O","N","E">>,
    <<"A","M","A","Z","O","N"," ","P","R","I","M","E">>,
    <<"P","R","I","M","E"," ","V","I","D","E","O">>,
    <<"H","O","T","S","T","A","R">>,
    <<"S","O","N","Y","L","I","V">>,
    <<"Z","E","E","5">>,
    <<"A","P","P","L","E",".","C","O","M">>,
    <<"A","P","P","L","E"," ","B","I","L","L">>,
    <<"I","C","L","O","U","D">>,
    <<"M","I","C","R","O","S","O","F","T">>,
    <<"O","F","F","I","C","E"," ","3","6","5">>,
    <<"O","F","F","I","C","E","3","6","5">>,
    <<"G","I","T","H","U","B">>,
    <<"F","I","G","M","A">>,
    <<"A","D","O","B","E">>,
    <<"N","O","T","I","O","N">>,
    <<"Z","O","O","M">>,
    <<"D","R","O","P","B","O","X">>,
    <<"C","A","N","V","A">>,
    <<"O","P","E","N","A","I">>,
    <<"A","N","T","H","R","O","P","I","C">>,
    <<"C","L","A","U","D","E",".","A","I">>,
    <<"C","U","R","S","O","R">>,
    <<"S","L","A","C","K">>,
    <<"A","T","L","A","S","S","I","A","N">>,
    <<"J","I","R","A">>,
    <<"S","W","I","G","G","Y"," ","O","N","E">>,
    <<"B","I","G","B","A","S","K","E","T"," ","B","B","S","T","A","R">>,
    <<"U","R","B","A","N","C","L","A","P"," ","P","L","U","S">>,
    <<"C","R","E","D"," ","P","R","I","M","E">>,
    <<"P","H","O","N","E","P","E"," ","P","A","S","S">>,
    <<"S","P","O","T","I","F","Y"," ","A","B">>,
    <<"Q","U","I","L","L","B","O","T">>,
    <<"S","U","B","S","T","A","C","K">>,
    <<"M","I","R","R","O","R"," ","A","I">>
>>

CATEGORY_KEYWORDS ==
  <<
    [category |-> "foods", keywords |-> <<
        <<"S","W","I","G","G","Y">>,
        <<"Z","O","M","A","T","O">>,
        <<"F","O","O","D">>,
        <<"D","I","N","I","N","G">>,
        <<"R","E","S","T","A","U","R","A","N","T">>,
        <<"P","I","Z","Z","A">>,
        <<"C","A","F","E">>,
        <<"D","O","M","I","N","O","S">>,
        <<"E","A","T","S">>,
        <<"B","B","Q"," ","N","A","T","I","O","N">>,
        <<"K","F","C">>,
        <<"M","C","D","O","N","A","L","D">>
    >>],
    [category |-> "fuel", keywords |-> <<
        <<"F","U","E","L">>,
        <<"P","E","T","R","O","L">>,
        <<"D","I","E","S","E","L">>,
        <<"H","P","C","L">>,
        <<"I","O","C","L">>,
        <<"B","P","C","L">>,
        <<"S","H","E","L","L">>,
        <<"E","S","S","A","R">>,
        <<"F","I","L","L","I","N","G"," ","S","T","A","T","I","O","N">>,
        <<"A","U","T","O","F","U","E","L">>,
        <<"H","P"," ","P","A","Y">>
    >>],
    [category |-> "recharge", keywords |-> <<
        <<"R","E","C","H","A","R","G","E">>,
        <<"F","A","S","T","A","G">>,
        <<"M","O","B","I","L","E">>,
        <<"P","R","E","P","A","I","D">>,
        <<"P","O","S","T","P","A","I","D">>,
        <<"D","T","H">>,
        <<"B","R","O","A","D","B","A","N","D">>,
        <<"A","I","R","T","E","L">>,
        <<"J","I","O">>,
        <<"V","O","D","A","F","O","N","E">>,
        <<"V","I"," ">>,
        <<"B","S","N","L">>,
        <<"D","A","T","A"," ","C","A","R","D">>
    >>],
    [category |-> "mutual_fund", keywords |-> <<
        <<"M","U","T","U","A","L"," ","F","U","N","D">>,
        <<"S","I","P">>,
        <<"S","Y","S","T","E","M","A","T","I","C"," ","I","N","V","E","S","T">>,
        <<"A","M","C">>,
        <<"C","A","M","S">>,
        <<"K","F","I","N","T","E","C","H">>,
        <<"M","F","U">>,
        <<"G","R","O","W","W">>,
        <<"Z","E","R","O","D","H","A"," ","C","O","I","N">>,
        <<"C","L","E","A","R","F","U","N","D","S">>,
        <<"I","N","V","E","S","T","M","E","N","T"," ","S","E","R","V","I","C","E","S">>
    >>],
    [category |-> "credit_bills", keywords |-> <<
        <<"C","R","E","D","I","T"," ","C","A","R","D"," ","P","A","Y","M","E","N","T">>,
        <<"C","A","R","D"," ","P","A","Y","M","E","N","T">>,
        <<"C","C"," ","P","A","Y","M","E","N","T">>,
        <<"H","D","F","C"," ","B","A","N","K"," ","C","A","R","D">>,
        <<"I","C","I","C","I"," ","C","R","E","D","I","T"," ","C","A","R","D">>,
        <<"B","I","L","L","D","E","S","K">>,
        <<"S","T","A","T","E","M","E","N","T"," ","P","A","Y","M","E","N","T">>,
        <<"C","A","R","D","S","E","T","T","L","E","M","E","N","T">>,
        <<"H","D","F","C","B","A","N","K","C","C">>,
        <<"P","A","Y","T","M"," ","C","R","E","D","I","T"," ","C","A","R","D">>
    >>],
    [category |-> "income", keywords |-> <<
        <<"S","A","L","A","R","Y">>,
        <<"P","A","Y","R","O","L","L">>,
        <<"N","E","F","T"," ","C","R">>,
        <<"R","E","F","U","N","D">>,
        <<"I","N","T","E","R","E","S","T">>,
        <<"D","I","V","I","D","E","N","D">>,
        <<"R","E","I","M","B","U","R","S","E","M","E","N","T">>,
        <<"C","R","E","D","I","T","E","D"," ","B","Y">>,
        <<"C","R","E","D","I","T"," ","F","R","O","M">>,
        <<"P","A","Y","M","E","N","T"," ","R","E","C","E","I","V","E","D">>
    >>]
  >>

\* SUBSCRIPTION_REGEXES: the pattern text, and the texts it matches between two
\* word boundaries once white space is collapsed and letters are upper case
SUBSCRIPTION_REGEXES ==
  <<
    [pattern |-> "\\bUPI[-\\s]?AUTO(?:PAY| DEBIT)\\b",
     matches |-> {
        <<"U","P","I","A","U","T","O","P","A","Y">>,
        <<"U","P","I","-","A","U","T","O","P","A","Y">>,
        <<"U","P","I"," ","A","U","T","O","P","A","Y">>,
        <<"U","P","I","A","U","T","O"," ","D","E","B","I","T">>,
        <<"U","P","I","-","A","U","T","O"," ","D","E","B","I","T">>,
        <<"U","P","I"," ","A","U","T","O"," ","D","E","B","I","T">> }],
    [pattern |-> "\\bAUTO[-\\s]?RENEW(AL)?\\b",
     matches |-> {
        <<"A","U","T","O","R","E","N","E","W">>,
        <<"A","U","T","O","-","R","E","N","E","W">>,
        <<"A","U","T","O"," ","R","E","N","E","W">>,
        <<"A","U","T","O","R","E","N","E","W","A","L">>,
        <<"A","U","T","O","-","R","E","N","E","W","A","L">>,
        <<"A","U","T","O"," ","R","E","N","E","W","A","L">> }],
    [pattern |-> "\\bRECURRING\\s+PAYMENT\\b",
     matches |-> {
        <<"R","E","C","U","R","R","I","N","G"," ","P","A","Y","M","E","N","T">> }],
    [pattern |-> "\\bSI\\s*/\\s*ACH\\b",
     matches |-> {
        <<"S","I","/","A","C","H">>,
        <<"S","I"," ","/","A","C","H">>,
        <<"S","I","/"," ","A","C","H">>,
        <<"S","I"," ","/"," ","A","C","H">> }],
    [pattern |-> "\\bAUTH\\s*MANDATE\\b",
     matches |-> {
        <<"A","U","T","H","M","A","N","D","A","T","E">>,
        <<"A","U","T","H"," ","M","A","N","D","A","T","E">> }]
  >>

DEFAULT_CATEGORY_DEFS ==
  << [value |-> "foods",        label |-> "Foods & Dining"],
     [value |-> "fuel",         label |-> "Fuel"],
     [value |-> "recharge",     label |-> "Recharge & Utilities"],
     [value |-> "mutual_fund",  label |-> "Mutual Fund"],
     [value |-> "credit_bills", label |-> "Credit Bills"],
     [value |-> "income",       label |-> "Income"],
     [value |-> "others",       label |-> "Others"] >>

(***************************************************************************)
(* Subscription detection.                                                  *)
(***************************************************************************)
\* the fields of a transaction that _prepare_detection_text reads and that a
\* transaction of BankStatementReaderAI has
DetectionFields(transaction) == <<transaction.description, transaction.rawLine>>

_prepare_detection_text(transaction) ==
  LET parts == SelectSeq(DetectionFields(transaction), LAMBDA v : v # <<>>)
  IN  Upper(Strip(CollapseSpaces(JoinSpace(parts))))

\* pattern.search(text) for a pattern that starts and ends with \b
RegexSearch(regex, text) ==
  \E m \in regex.matches :
    \E i \in 1..(Len(text) - Len(m) + 1) :
      /\ SubSeq(text, i, i + Len(m) - 1) = m
      /\ (i = 1 \/ ~IsWordChar(text[i - 1]))
      /\ (i + Len(m) - 1 = Len(text) \/ ~IsWordChar(text[i + Len(m)]))

\* the first element of a table that the text matches, as a 0/1-element sequence
FirstContained(table, text) ==
  LET hits == {i \in DOMAIN table : Contains(text, table[i])}
  IN  IF hits = {} THEN None
      ELSE Some(table[CHOOSE i \in hits : \A j \in hits : i <= j])

FirstRegex(text) ==
  LET hits == {i \in DOMAIN SUBSCRIPTION_REGEXES : RegexSearch(SUBSCRIPTION_REGEXES[i], text)}
  IN  IF hits = {} THEN None
      ELSE Some(SUBSCRIPTION_REGEXES[CHOOSE i \in hits : \A j \in hits : i <= j])

AUTO == <<"A","U","T","O">>
PAY == <<"P","A","Y">>
DEBIT_WORD == <<"D","E","B","I","T">>

\* detect_subscription with the merchant list consulted before the keywords
DetectSubscription_MerchantFirst(text) ==
  LET kw == FirstContained(SUBSCRIPTION_KEYWORDS, text)
      rx == FirstRegex(text)
      mc == FirstContained(SUBSCRIPTION_MERCHANTS, text)
  IN  IF text = <<>> THEN <<FALSE, "">>
      ELSE IF ~IsNone(mc) THEN <<TRUE, "merchant:" \o Str(Lower(Val(mc)))>>
      ELSE IF ~IsNone(kw) THEN <<TRUE, "keyword:" \o Str(Lower(Val(kw)))>>
      ELSE IF ~IsNone(rx) THEN <<TRUE, "pattern:" \o Val(rx).pattern>>
      ELSE IF Contains(text, AUTO) /\ (Contains(text, PAY) \/ Contains(text, DEBIT_WORD))
           THEN <<TRUE, "heuristic:autopay">>
      ELSE IF Contains(text, <<"S","I","/">>)
              \/ Contains(text, <<"S","T","A","N","D","I","N","G"," ","I","N","S","T">>)
           THEN <<TRUE, "heuristic:standing_instruction">>
      ELSE IF Contains(text, <<"S","U","B"," ">>) \/ Contains(text, <<"S","U","B","-">>)
           THEN <<TRUE, "heuristic:subscription_shorthand">>
      ELSE <<FALSE, "">>

\* detect_subscription, from the detection text on
DetectSubscription(text) ==
  LET kw == FirstContained(SUBSCRIPTION_KEYWORDS, text)
      rx == FirstRegex(text)
      mc == FirstContained(SUBSCRIPTION_MERCHANTS, text)
  IN  IF text = <<>> THEN <<FALSE, "">>
      ELSE IF ~IsNone(kw) THEN <<TRUE, "keyword:" \o Str(Lower(Val(kw)))>>
      ELSE IF ~IsNone(rx) THEN <<TRUE, "pattern:" \o Val(rx).pattern>>
      ELSE IF ~IsNone(mc) THEN <<TRUE, "merchant:" \o Str(Lower(Val(mc)))>>
      ELSE IF Contains(text, AUTO) /\ (Contains(text, PAY) \/ Contains(text, DEBIT_WORD))
           THEN <<TRUE, "heuristic:autopay">>
      ELSE IF Contains(text, <<"S","I","/">>)
              \/ Contains(text, <<"S","T","A","N","D","I","N","G"," ","I","N","S","T">>)
           THEN <<TRUE, "heuristic:standing_instruction">>
      ELSE IF Contains(text, <<"S","U","B"," ">>) \/ Contains(text, <<"S","U","B","-">>)
           THEN <<TRUE, "heuristic:subscription_shorthand">>
      ELSE <<FALSE, "">>

\* the fields of a transaction that detection and categorisation read
Detected(transaction) ==
  [description |-> transaction.description, rawLine |-> transaction.rawLine,
   type |-> transaction.type]

\* detect_subscription of every transaction of the model, computed once
SubscriptionTable ==
  [x \in {Detected(t) : t \in TxPool} |-> DetectSubscription(_prepare_detection_text(x))]

detect_subscription(transaction) == SubscriptionTable[Detected(transaction)]

\* collect_tags: the tags of the transactions, each once, in first-seen order
RECURSIVE AppendNew(_, _)
AppendNew(seen, tags) ==
  IF tags = <<>> THEN seen
  ELSE AppendNew(IF Head(tags) \in Range(seen) THEN seen ELSE Append(seen, Head(tags)),
                 Tail(tags))

RECURSIVE collect_tags(_)
collect_tags(transactions) ==
  IF transactions = <<>> THEN <<>>
  ELSE AppendNew(collect_tags(SubSeq(transactions, 1, Len(transactions) - 1)),
                 transactions[Len(transactions)].tags)

(***************************************************************************)
(* The two folders.  A file name is its stem and the characters after its  *)
(* last dot; the                                                            *)
(* cache folder maps a file name to the JSON value the file holds.  A JSON  *)
(* value is an extraction result (kind "result"), another object (kind      *)
(* "dict", its string entries) or an array (kind "list").  A Python dict    *)
(* with string keys is the set of its <<key, value>> pairs.                 *)
(***************************************************************************)
Keys(d) == {p[1] : p \in d}
Get(d, k) == (CHOOSE p \in d : p[1] = k)[2]
Put(d, k, v) == {p \in d : p[1] # k} \cup {<<k, v>>}
Pop(d, k) == {p \in d : p[1] # k}

FileName(f) == f.stem \o "." \o Str(f.ext)

\* CUSTOM_CATEGORIES_PATH and CATEGORY_OVERRIDES_PATH, relative to CACHE_DIR
CUSTOM_CATEGORIES_PATH == "custom_categories.json"
CATEGORY_OVERRIDES_PATH == "category_overrides.json"

JsonResult(txs, format) ==
  [kind |-> "result", txs |-> txs, format |-> format, entries |-> {}, items |-> <<>>]
JsonDict(entries) ==
  [kind |-> "dict", txs |-> <<>>, format |-> "", entries |-> entries, items |-> <<>>]
JsonList(items) ==
  [kind |-> "list", txs |-> <<>>, format |-> "", entries |-> {}, items |-> items]

\* the keys of the object extract_transactions returns and save_to_cache completes
ResultKeys == {"sourceFile", "timestamp", "transactions", "metadata", "_cache_metadata"}

\* {str(k): str(v) for k, v in data.items()} of a JSON object
StrEntries(json) ==
  IF json.kind = "dict" THEN json.entries
  ELSE {<<k, "str(" \o k \o ")">> : k \in ResultKeys}

load_category_overrides(store) ==
  IF IsNone(store[CATEGORY_OVERRIDES_PATH]) THEN {}
  ELSE IF Val(store[CATEGORY_OVERRIDES_PATH]).kind \in {"dict", "result"}
       THEN StrEntries(Val(store[CATEGORY_OVERRIDES_PATH]))
       ELSE {}

save_category_overrides(store, overrides) ==
  [store EXCEPT ![CATEGORY_OVERRIDES_PATH] = Some(JsonDict(overrides))]

load_custom_categories(store) ==
  IF IsNone(store[CUSTOM_CATEGORIES_PATH]) THEN <<>>
  ELSE IF Val(store[CUSTOM_CATEGORIES_PATH]).kind = "list"
       THEN Val(store[CUSTOM_CATEGORIES_PATH]).items
       ELSE <<>>

save_custom_categories(store, categories) ==
  [store EXCEPT ![CUSTOM_CATEGORIES_PATH] = Some(JsonList(categories))]

RECURSIVE AppendUnseen(_, _)
AppendUnseen(options, custom) ==
  IF custom = <<>> THEN options
  ELSE AppendUnseen(
         IF Head(custom).value \in {options[i].value : i \in DOMAIN options}
         THEN options ELSE Append(options, Head(custom)),
         Tail(custom))

get_category_options(store) == AppendUnseen(DEFAULT_CATEGORY_DEFS, load_custom_categories(store))

\* the keys of get_category_label_map()
Values(options) == {options[i].value : i \in DOMAIN options}
get_category_label_map(store) == Values(get_category_options(store))

\* slugify_category_label: runs of characters outside [a-z0-9] become one "_",
\* and "_" is stripped from both ends
RECURSIVE SlugChars(_, _)
SlugChars(t, pending) ==
  IF t = <<>> THEN <<>>
  ELSE IF Head(t) \in Range(LowerLetters) \cup Digits
       THEN (IF pending THEN <<"_">> ELSE <<>>) \o <<Head(t)>> \o SlugChars(Tail(t), FALSE)
       ELSE SlugChars(Tail(t), TRUE)

DropLeadingUnderscore(t) == IF t # <<>> /\ Head(t) = "_" THEN Tail(t) ELSE t

slugify_category_label(label) == Str(DropLeadingUnderscore(SlugChars(Lower(label), FALSE)))

(***************************************************************************)
(* Categorisation.                                                          *)
(***************************************************************************)
AnyKeyword(keywords, text) == \E i \in DOMAIN keywords : Contains(text, keywords[i])

\* auto_categorize_transaction, from the detection text and the type on; the
\* parser writes the type in upper case, which upper() leaves as it is
AutoCategorize(text, tx_type) ==
  LET is_credit == tx_type = "CREDIT"
      hits == {i \in DOMAIN CATEGORY_KEYWORDS :
                 /\ ~(CATEGORY_KEYWORDS[i].category = "income" /\ ~is_credit)
                 /\ AnyKeyword(CATEGORY_KEYWORDS[i].keywords, text)}
  IN  IF hits # {} THEN CATEGORY_KEYWORDS[CHOOSE i \in hits : \A j \in hits : i <= j].category
      ELSE IF is_credit THEN "income"
      ELSE "others"

\* auto_categorize_transaction of every transaction of the model, computed once
CategoryTable ==
  [x \in {Detected(t) : t \in TxPool} |-> AutoCategorize(_prepare_detection_text(x), x.type)]

auto_categorize_transaction(transaction) == CategoryTable[Detected(transaction)]

\* a variant of ResolveCategory in which a keyword match beats the override
ResolveCategory_AutoFirst(group_key, overrides, label_map, auto) ==
  IF auto \in label_map /\ auto # "others" THEN <<auto, "auto">>
  ELSE IF group_key \in Keys(overrides) /\ Get(overrides, group_key) \in label_map
  THEN <<Get(overrides, group_key), "manual">>
  ELSE <<"others", "auto">>

\* a variant of ResolveCategory that trusts every stored override
ResolveCategory_TrustStored(group_key, overrides, label_map, auto) ==
  IF group_key \in Keys(overrides)
  THEN <<Get(overrides, group_key), "manual">>
  ELSE <<IF auto \in label_map THEN auto ELSE "others", "auto">>

\* resolve_transaction_category, from label_map and the automatic category on
ResolveCategory(group_key, overrides, label_map, auto) ==
  IF group_key \in Keys(overrides) /\ Get(overrides, group_key) \in label_map
  THEN <<Get(overrides, group_key), "manual">>
  ELSE <<IF auto \in label_map THEN auto ELSE "others", "auto">>

resolve_transaction_category(group_key, transaction, overrides, store) ==
  ResolveCategory(group_key, overrides, get_category_label_map(store),
                  auto_categorize_transaction(transaction))

(***************************************************************************)
(* Cache and document processing.  A document is what the text-extraction   *)
(* and parsing of BankStatementReaderAI makes of a PDF: it cannot be read,  *)
(* or it yields a format and a list of transactions.                        *)
(***************************************************************************)
\* filename.replace('.pdf', '.json'), for a stem that does not contain ".pdf"
get_cache_path(f) == IF f.ext = <<"p","d","f">> THEN f.stem \o ".json" ELSE FileName(f)

\* cache_path.exists(), file_path.exists() and cache_mtime >= pdf_mtime;
\* newer holds the cache files written since the PDF of their name was saved
is_cache_valid(f, files, store, newer) ==
  /\ ~IsNone(store[get_cache_path(f)])
  /\ ~IsNone(files[f])
  /\ get_cache_path(f) \in newer

get_cached_result(f, files, store, newer) ==
  IF is_cache_valid(f, files, store, newer) THEN store[get_cache_path(f)] ELSE None

\* BankStatementReaderAI.extract_transactions raises
ExtractRaises(f, files) == IsNone(files[f]) \/ ~Val(files[f]).readable

extract_transactions(f, files) == JsonResult(Val(files[f]).txs, Val(files[f]).format)

\* process_pdf: whether it raised, what it returned, and the cache after it
process_pdf(f, files, store, newer, use_cache) ==
  LET cached == IF use_cache THEN get_cached_result(f, files, store, newer) ELSE None
  IN  IF ~IsNone(cached)
      THEN [raised |-> FALSE, result |-> cached, store |-> store, newer |-> newer]
      ELSE IF ExtractRaises(f, files)
      THEN [raised |-> TRUE, result |-> None, store |-> store, newer |-> newer]
      ELSE [raised |-> FALSE,
            result |-> Some(extract_transactions(f, files)),
            \* save_to_cache
            store |-> [store EXCEPT ![get_cache_path(f)] = Some(extract_transactions(f, files))],
            newer |-> newer \cup {get_cache_path(f)}]

(***************************************************************************)
(* combine_all_transactions, first loop: the transactions of every file,    *)
(* with their source, normalised date and amount, and subscription tag.     *)
(***************************************************************************)
Truthy(text) == text.layout # ""

\* tx.get('date') or tx.get('originalDate') or ''
DateOrOriginal(tx) ==
  IF Truthy(tx.date) THEN tx.date ELSE IF Truthy(tx.originalDate) THEN tx.originalDate ELSE EmptyDate

\* tx.get('amountValue'), or the normalised amount text when it is None
AmountValueOf(tx) ==
  IF IsNone(tx.amountValue) THEN normalize_amount_value(tx.amount) ELSE tx.amountValue

\* a variant of SubscriptionTags that leaves the tags as they came
SubscriptionTags_AsGiven(tags, is_subscription) == tags

\* lines 510-518: the tags with or without "subscription"
SubscriptionTags(tags, is_subscription) ==
  IF is_subscription
  THEN (IF "subscription" \in Range(tags) THEN tags ELSE Append(tags, "subscription"))
  ELSE SelectSeq(tags, LAMBDA tag : tag # "subscription")

\* lines 492-524 for one transaction, from its normalised date, amount value
\* and detection on
Enriched(tx, filename, format, normalized_date, amount_value, detected) ==
  [ date |-> IF IsNone(normalized_date) THEN tx.date ELSE Val(normalized_date),
    originalDate |-> tx.originalDate,
    time |-> tx.time,
    description |-> tx.description,
    type |-> tx.type,
    amount |-> tx.amount,
    currency |-> tx.currency,
    amountValue |-> amount_value,
    rawLine |-> tx.rawLine,
    sourceFile |-> filename,
    sourceFileMetadata |-> [format |-> format],
    tags |-> SubscriptionTags(tx.tags, detected[1]),
    isSubscription |-> detected[1],
    subscriptionReason |-> detected[2] ]

\* lines 492-524 for one transaction
EnrichTransaction(tx, filename, format) ==
  Enriched(tx, filename, format, normalize_date_string(DateOrOriginal(tx)),
           AmountValueOf(tx), detect_subscription(tx))

FileSummary(filename, count, format, error) ==
  [filename |-> filename, count |-> count, format |-> format, error |-> error]

\* a variant of FailedFile in which the failure discards what was collected
FailedFile_Abort(acc, f, r, error) ==
  [acc EXCEPT !.store = r.store, !.newer = r.newer,
              !.all_transactions = <<>>,
              !.file_summaries = Append(@, FileSummary(FileName(f), 0, None, Some(error)))]

\* lines 536-540: the summary of a file that could not be processed
FailedFile(acc, f, r, error) ==
  [acc EXCEPT !.store = r.store, !.newer = r.newer,
              !.file_summaries = Append(@, FileSummary(FileName(f), 0, None, Some(error)))]

\* lines 520-534: the transactions of a file and its summary
AddTransactions(acc, f, r, format, transactions_list) ==
  [acc EXCEPT !.store = r.store, !.newer = r.newer,
              !.all_transactions = @ \o transactions_list,
              !.file_summaries =
                 Append(@, FileSummary(FileName(f), Len(transactions_list), Some(format), None))]

\* lines 478-540: the body of the loop once process_pdf has returned r
AddFile(acc, f, r) ==
  IF r.raised THEN FailedFile(acc, f, r, "pdf")
  \* a JSON array has no .get
  ELSE IF Val(r.result).kind = "list" THEN FailedFile(acc, f, r, "AttributeError")
  \* an object whose "metadata" is a string: the list of transactions is
  \* empty, and .get on the string raises after it was added
  ELSE IF Val(r.result).kind = "dict" /\ "metadata" \in Keys(Val(r.result).entries)
  THEN FailedFile(acc, f, r, "AttributeError")
  ELSE AddTransactions(
         acc, f, r,
         IF Val(r.result).kind = "result" THEN Val(r.result).format ELSE "unknown",
         [i \in DOMAIN Val(r.result).txs |->
            EnrichTransaction(Val(r.result).txs[i], FileName(f), Val(r.result).format)])

\* the body of the loop over pdf_files for one file: acc holds all_transactions,
\* file_summaries and the cache folder
ProcessFile(acc, f, files, use_cache) ==
  IF IsNone(files[f]) THEN acc
  ELSE AddFile(acc, f, process_pdf(f, files, acc.store, acc.newer, use_cache))

RECURSIVE ProcessFiles(_, _, _, _)
ProcessFiles(acc, pdf_files, files, use_cache) ==
  IF pdf_files = <<>> THEN acc
  ELSE ProcessFiles(ProcessFile(acc, Head(pdf_files), files, use_cache),
                    Tail(pdf_files), files, use_cache)

(***************************************************************************)
(* combine_all_transactions, second part: duplicate groups, categories and  *)
(* the collapsed view.                                                      *)
(***************************************************************************)
\* a variant of KeyOf with one key for all the transactions that cannot be keyed
KeyOf_NoIndex(date_key, amount_value, idx) ==
  IF ~IsNone(date_key) /\ ~IsNone(amount_value)
  THEN IsoString(Val(date_key)) \o ":" \o Fixed2(Val(amount_value))
  ELSE "__ungrouped__"

\* a variant of KeyOf in which every key carries the index
KeyOf_Positional(date_key, amount_value, idx) ==
  IF ~IsNone(date_key) /\ ~IsNone(amount_value)
  THEN IsoString(Val(date_key)) \o ":" \o Fixed2(Val(amount_value)) \o "#" \o ToString(idx)
  ELSE "__ungrouped__" \o ToString(idx)

\* lines 556-560: the key, from the normalised date and the amount value on
KeyOf(date_key, amount_value, idx) ==
  IF ~IsNone(date_key) /\ ~IsNone(amount_value)
  THEN IsoString(Val(date_key)) \o ":" \o Fixed2(Val(amount_value))
  ELSE "__ungrouped__" \o ToString(idx)

\* lines 546-560: the key of the transaction at index idx (from 0)
GroupKey(tx, idx) ==
  KeyOf(normalize_date_string(DateOrOriginal(tx)), AmountValueOf(tx), idx)

\* lines 550-565: the fields combine_all_transactions writes to a transaction
Stamped(tx, amount_value, group_key, resolved) ==
  [ amountValue |-> amount_value,
    duplicateGroupKey |-> group_key,
    category |-> resolved[1],
    categorySource |-> resolved[2] ] @@ tx

StampWithKey(tx, group_key, overrides, store) ==
  Stamped(tx, AmountValueOf(tx), group_key,
          resolve_transaction_category(group_key, tx, overrides, store))

\* lines 546-565: the transaction with its amount value, key and category
StampTransaction(tx, idx, overrides, store) ==
  StampWithKey(tx, GroupKey(tx, idx), overrides, store)

StampAll(all_transactions, overrides, store) ==
  [i \in DOMAIN all_transactions |->
     StampTransaction(all_transactions[i], i - 1, overrides, store)]

\* a variant of AddToGroups that starts the list of a key again
AddToGroups_Overwrite(groups, tx) ==
  IF \E i \in DOMAIN groups : groups[i].groupKey = tx.duplicateGroupKey
  THEN [i \in DOMAIN groups |->
          IF groups[i].groupKey = tx.duplicateGroupKey
          THEN [groups[i] EXCEPT !.txs = <<tx>>] ELSE groups[i]]
  ELSE Append(groups, [groupKey |-> tx.duplicateGroupKey, txs |-> <<tx>>])

\* duplicate_groups.setdefault(group_key, []).append(tx): the groups in the
\* order their keys were first seen
AddToGroups(groups, tx) ==
  IF \E i \in DOMAIN groups : groups[i].groupKey = tx.duplicateGroupKey
  THEN [i \in DOMAIN groups |->
          IF groups[i].groupKey = tx.duplicateGroupKey
          THEN [groups[i] EXCEPT !.txs = Append(@, tx)] ELSE groups[i]]
  ELSE Append(groups, [groupKey |-> tx.duplicateGroupKey, txs |-> <<tx>>])

RECURSIVE GroupAll(_)
GroupAll(stamped) ==
  IF stamped = <<>> THEN <<>>
  ELSE AddToGroups(GroupAll(SubSeq(stamped, 1, Len(stamped) - 1)), stamped[Len(stamped)])

\* a variant of IsDuplicateGroup that lists every group
IsDuplicateGroup_Any(g) == Len(g.txs) >= 1

\* line 573: the groups listed for review
IsDuplicateGroup(g) == Len(g.txs) > 1

\* lines 576-590: the review entry of a group with more than one member
DuplicateGroupEntry(g) ==
  [ groupKey |-> g.groupKey,
    date |-> g.txs[1].date,
    amount |-> g.txs[1].amountValue,
    transactions |->
      [i \in DOMAIN g.txs |->
         [ sourceFile |-> g.txs[i].sourceFile, description |-> g.txs[i].description,
           type |-> g.txs[i].type, time |-> g.txs[i].time, rawLine |-> g.txs[i].rawLine ]] ]

\* a variant of RepresentativeValue that takes the last member's value
RepresentativeValue_Last(values, default) ==
  LET present == SelectSeq(values, LAMBDA c : c # "")
  IN  IF present # <<>> THEN present[Len(present)] ELSE default

\* lines 611-614: the category (or category source) of the first member that
\* has one, else the representative's
RepresentativeValue(values, default) ==
  LET present == SelectSeq(values, LAMBDA c : c # "")
  IN  IF present # <<>> THEN present[1] ELSE default

\* lines 600-607: the sorted list of distinct source names, as their set
UniqueSources(txs) ==
  {txs[i].sourceFile : i \in {j \in DOMAIN txs : txs[j].sourceFile # ""}}

\* a variant of SourceDisplay that names one of the files
SourceDisplay_OneName(unique_sources, default) ==
  IF Cardinality(unique_sources) = 0 THEN default
  ELSE CHOOSE s \in unique_sources : TRUE

\* lines 601-607: source_display
SourceDisplay(unique_sources, default) ==
  IF Cardinality(unique_sources) = 0 THEN default
  ELSE IF Cardinality(unique_sources) = 1 THEN CHOOSE s \in unique_sources : TRUE
  ELSE "Multiple (" \o ToString(Cardinality(unique_sources)) \o " files)"

\* lines 598-656: the collapsed entry of the transactions txs of one key, the
\* first of which is the representative
CollapsedOf(group_key, txs, representative) ==
  [ duplicateGroupKey |-> group_key,
    duplicateCount |-> Len(txs),
    date |-> representative.date,
    originalDate |-> representative.originalDate,
    time |-> representative.time,
    description |-> representative.description,
    type |-> representative.type,
    amount |-> representative.amount,
    amountValue |-> representative.amountValue,
    currency |-> representative.currency,
    rawLine |-> representative.rawLine,
    sourceFile |-> SourceDisplay(UniqueSources(txs), representative.sourceFile),
    sourceFiles |-> UniqueSources(txs),
    tags |-> collect_tags(txs),
    isSubscription |-> \E i \in DOMAIN txs : txs[i].isSubscription,
    subscriptionReason |->
      RepresentativeValue([i \in DOMAIN txs |-> txs[i].subscriptionReason],
                          representative.subscriptionReason),
    category |-> RepresentativeValue([i \in DOMAIN txs |-> txs[i].category],
                                     representative.category),
    categorySource |-> RepresentativeValue([i \in DOMAIN txs |-> txs[i].categorySource],
                                           representative.categorySource),
    \* the members, without their sourceFileMetadata
    transactions |->
      [i \in DOMAIN txs |->
         [k \in DOMAIN txs[i] \ {"sourceFileMetadata"} |-> txs[i][k]]] ]

CollapsedEntry(g) == CollapsedOf(g.groupKey, g.txs, g.txs[1])

RECURSIVE SumSeq(_)
SumSeq(s) == IF s = <<>> THEN 0 ELSE Head(s) + SumSeq(Tail(s))

\* lines 658-673: the returned object
CombinedResult(stamped, duplicate_groups, multi, file_summaries, total_files) ==
  [ transactions |-> stamped,
    collapsedTransactions |->
      [i \in DOMAIN duplicate_groups |-> CollapsedEntry(duplicate_groups[i])],
    duplicateGroups |-> [i \in DOMAIN multi |-> DuplicateGroupEntry(multi[i])],
    summary |->
      [ totalTransactions |-> Len(stamped),
        collapsedTransactionCount |-> Len(duplicate_groups),
        duplicateGroupCount |-> Len(multi),
        duplicateTransactionCount |-> SumSeq([i \in DOMAIN multi |-> Len(multi[i].txs)]),
        duplicatesCollapsed |-> SumSeq([i \in DOMAIN multi |-> Len(multi[i].txs) - 1]),
        totalFiles |-> total_files,
        processedFiles |-> Len(file_summaries),
        files |-> file_summaries ] ]

\* lines 568-656: the groups of the stamped transactions, and those listed for review
GroupsResult(stamped, duplicate_groups, file_summaries, total_files) ==
  CombinedResult(stamped, duplicate_groups, SelectSeq(duplicate_groups, IsDuplicateGroup),
                 file_summaries, total_files)

GroupStamped(stamped, file_summaries, total_files) ==
  GroupsResult(stamped, GroupAll(stamped), file_summaries, total_files)

\* lines 542-673: the returned object, from all_transactions and file_summaries
Reconcile(all_transactions, file_summaries, total_files, store) ==
  GroupStamped(StampAll(all_transactions, load_category_overrides(store), store),
               file_summaries, total_files)

\* what combine_all_transactions returns and the cache folder it leaves, once
\* the loop over the files has ended with acc
Combined(acc, total_files) ==
  [ result |-> Reconcile(acc.all_transactions, acc.file_summaries, total_files, acc.store),
    store |-> acc.store,
    newer |-> acc.newer ]

\* combine_all_transactions over the files in scan order
combine_all_transactions(pdf_files, files, store, newer, force_refresh) ==
  Combined(ProcessFiles([all_transactions |-> <<>>, file_summaries |-> <<>>,
                         store |-> store, newer |-> newer],
                        pdf_files, files, ~force_refresh),
           Len(pdf_files))
(***************************************************************************)
(* set_category_override and add_custom_category.  A JSON value of a        *)
(* request is null, a string (its characters) or a number.                  *)
(***************************************************************************)
JsonNull == [type |-> "null", chars |-> <<>>, num |-> 0]
JsonString(chars) == [type |-> "string", chars |-> chars, num |-> 0]
JsonNumber(n) == [type |-> "number", chars |-> <<>>, num |-> n]

\* not value
Falsy(value) ==
  \/ value.type = "null"
  \/ value.type = "string" /\ value.chars = <<>>
  \/ value.type = "number" /\ value.num = 0

\* an empty file: what open(path, 'w') leaves until the text is written
JsonEmpty == [kind |-> "empty", txs |-> <<>>, format |-> "", entries |-> {}, items |-> <<>>]

\* a variant of ModifyOverrides that stores a category of any name
ModifyOverrides_Unchecked(group_key, category, overrides, label_map) ==
  IF Falsy(category) \/ category = JsonString(<<"a","u","t","o">>)
  THEN [raised |-> None, overrides |-> Pop(overrides, group_key)]
  ELSE IF category.type # "string" THEN [raised |-> Some("AttributeError"), overrides |-> overrides]
  ELSE [raised |-> None,
        overrides |-> Put(overrides, group_key, Str(Lower(Strip(category.chars))))]

\* lines 301-306 of set_category_override: the exception raised, if any, and
\* the overrides to save
ModifyOverrides(group_key, category, overrides, label_map) ==
  LET normalized == Str(Lower(Strip(category.chars)))
  IN  IF Falsy(category) \/ category = JsonString(<<"a","u","t","o">>)
      THEN [raised |-> None, overrides |-> Pop(overrides, group_key)]
      \* a number has no .strip
      ELSE IF category.type # "string" THEN [raised |-> Some("AttributeError"), overrides |-> overrides]
      ELSE IF normalized \notin label_map THEN [raised |-> Some("ValueError"), overrides |-> overrides]
      ELSE [raised |-> None, overrides |-> Put(overrides, group_key, normalized)]

\* lines 308-309: the cache folder once the modified overrides are saved
SaveModified(modified, store) ==
  IF IsNone(modified.raised)
  THEN [raised |-> None, store |-> save_category_overrides(store, modified.overrides)]
  ELSE [raised |-> modified.raised, store |-> store]

\* set_category_override: the exception it raises, if any, and the cache folder
set_category_override(group_key, category, store) ==
  IF group_key = "" THEN [raised |-> Some("ValueError"), store |-> store]
  ELSE SaveModified(ModifyOverrides(group_key, category, load_category_overrides(store),
                                    get_category_label_map(store)),
                    store)

add_custom_category(label, store) ==
  LET cleaned_label == Strip(label)
      slug == slugify_category_label(cleaned_label)
  IN  IF label = <<>> \/ Strip(label) = <<>> THEN [raised |-> Some("ValueError"), store |-> store]
      ELSE IF slug = "" THEN [raised |-> Some("ValueError"), store |-> store]
      ELSE IF slug \in get_category_label_map(store)
      THEN [raised |-> Some("ValueError"), store |-> store]
      ELSE [raised |-> None,
            store |-> save_custom_categories(
                        store,
                        Append(load_custom_categories(store),
                               [value |-> slug, label |-> Str(cleaned_label)]))]

\* except ValueError -> 400, except Exception -> 500
StatusOf(raised) ==
  IF IsNone(raised) THEN 200 ELSE IF Val(raised) = "ValueError" THEN 400 ELSE 500

(***************************************************************************)
(* The documents, file names and request values of the model.               *)
(***************************************************************************)
RECURSIVE SeqsUpTo(_, _)
SeqsUpTo(S, n) ==
  IF n = 0 THEN {<<>>}
  ELSE SeqsUpTo(S, n - 1) \cup {Append(s, x) : s \in {t \in SeqsUpTo(S, n - 1) : Len(t) = n - 1}, x \in S}

Document(readable, format, txs) == [readable |-> readable, format |-> format, txs |-> txs]
\* a PDF that pdfplumber cannot open
Unreadable == Document(FALSE, "", <<>>)
\* a statement lists its transactions by date, the undated ones last
StatementOrder == <<TxSwiggy, TxNetflix, TxPetrol, TxRent, TxSalary>>
Sorted(positions) == \A i, j \in DOMAIN positions : i < j => positions[i] <= positions[j]
Chronological(txs) == Sorted([i \in DOMAIN txs |-> IndexIn(txs[i], StatementOrder)])
Statements(pool, n) ==
  {Document(TRUE, "hdfc_account_statement", txs) : txs \in {t \in SeqsUpTo(pool, n) : Chronological(t)}}
\* the statements with up to MaxTxPerDoc transactions
Documents == Statements(TxPool, MaxTxPerDoc)
\* the documents uploaded under the names of the cache folder's own files
StoreDocuments ==
  {Unreadable} \cup Statements({TxSwiggy, TxSalary}, MaxStoreTxPerDoc)

Pdf(stem) == [stem |-> stem, ext |-> <<"p","d","f">>]
\* ordinary statement names
StatementNames == {Pdf("jan"), Pdf("feb")}
\* names whose cache file is one of the two stores of the cache folder
StoreNames == {Pdf("category_overrides"), Pdf("custom_categories")}
PdfNames == StatementNames \cup StoreNames
\* a name that is no PDF
NotesTxt == [stem |-> "notes", ext |-> <<"t","x","t">>]
CacheNames == {get_cache_path(f) : f \in PdfNames} \cup {CUSTOM_CATEGORIES_PATH, CATEGORY_OVERRIDES_PATH}

\* the group keys and categories a client sends to /api/categories/assign
GroupKeyInputs == {"", "2024-02-01:250.00"}
CategoryInputs ==
  { JsonNull,
    JsonString(<<"a","u","t","o">>),
    JsonString(<<" ","F","u","e","l">>),
    JsonString(<<"g","y","m">>),
    JsonString(<<"b","o","g","u","s">>),
    JsonNumber(5) }
\* the labels a client sends to /api/categories
LabelInputs == { <<>>, <<"-","-">>, <<"F","u","e","l">>, <<"G","y","m">> }
\* the categories and labels of the built-in definition set alone
BuiltinCategoryInputs == CategoryInputs \ {JsonString(<<"g","y","m">>)}
BuiltinLabelInputs == LabelInputs \ {<<"G","y","m">>}

ALLOWED_EXTENSIONS == {"pdf"}
\* allowed_file: the text after the last dot, in lower case
allowed_file(f) == Str(Lower(f.ext)) \in ALLOWED_EXTENSIONS

(***************************************************************************)
(* State: the readerfiles folder (files, and order, its names by            *)
(* modification time, latest first), the cache folder (cacheDir, and newer, *)
(* its files at least as recent as the PDF of their name), and the response *)
(* to the latest request: its status and, for a route that combines all     *)
(* transactions, its data.  inflight holds the calls of                     *)
(* set_category_override that requests served at the same time are in.      *)
(* The others are a run of extract_transactions on one document: the        *)
(* blocks of the document, the number of blocks the loop has taken (idx),   *)
(* the local variables previous_balance and parsed_transactions, and in     *)
(* passed the previous_balance each call of parse_with_ai was given.        *)
(***************************************************************************)
VARIABLES files, order, cacheDir, newer, response, inflight,
          all_transaction_lines, taken, previous_balance, parsed_transactions, passed,
          page_text, format_type, scanned, started

\* the variables of a run of extract_transactions
\* the page extract_transaction_lines goes through: its lines, the format
\* detect_format gave (NotDetected before the call), the number of lines the
\* loop has visited, and for each block the number of the line it began at
\* (0 for a block that came from no line of the page)
page == <<page_text, format_type, scanned, started>>
reader == <<all_transaction_lines, taken, previous_balance, parsed_transactions, passed, page>>
\* the variables that a request served alone leaves as they are
elsewhere == <<inflight, reader>>
vars == <<files, order, cacheDir, newer, response, inflight, reader>>

\* the threads of the server that serve requests at the same time
Threads == {1, 2}

\* a thread that is in no call: pc is the place of the thread in
\* set_category_override, overrides the local variable of that name, status
\* the status of the response once the call has returned
NotCalled ==
  [pc |-> "idle", group_key |-> "", category |-> JsonNull, overrides |-> {}, status |-> 0]

\* READERFILES_DIR and CACHE_DIR are empty and no request has been made
InitFolders ==
  /\ files = [f \in PdfNames |-> None]
  /\ order = <<>>
  /\ cacheDir = [n \in CacheNames |-> None]
  /\ newer = {}
  /\ response = [data |-> None, status |-> 0]

\* format_type before the call of detect_format
NotDetected == "not detected"

\* extract_transactions before its loop, on a document of these blocks
InitReader(blocks) ==
  /\ all_transaction_lines = blocks
  /\ taken = 0
  /\ previous_balance = None
  /\ parsed_transactions = <<>>
  /\ passed = <<>>
  /\ page_text = <<>>
  /\ format_type = "unknown"
  /\ scanned = 0
  /\ started = [k \in DOMAIN blocks |-> 0]

Init ==
  /\ InitFolders
  /\ inflight = [t \in Threads |-> NotCalled]
  /\ InitReader(<<>>)

\* scan_readerfiles_folder: the PDFs, by modification time, latest first
scan_readerfiles_folder == order

\* POST /api/upload
upload_file(f, doc) ==
  /\ UNCHANGED elsewhere
  /\ IF ~allowed_file(f)
     THEN /\ response' = [data |-> None, status |-> 400]
          /\ UNCHANGED <<files, order, cacheDir, newer>>
     ELSE LET saved == [files EXCEPT ![f] = Some(doc)]
              r == process_pdf(f, saved, cacheDir, newer \ {get_cache_path(f)}, FALSE)
          IN  /\ files' = saved
              /\ order' = <<f>> \o SelectSeq(order, LAMBDA g : g # f)
              /\ cacheDir' = r.store
              /\ newer' = r.newer
              /\ response' = [data |-> None, status |-> IF r.raised THEN 500 ELSE 200]

\* GET /api/process-file/<filename>
process_file(f, force_refresh) ==
  /\ UNCHANGED elsewhere
  /\ IF IsNone(files[f])
     THEN /\ response' = [data |-> None, status |-> 404]
          /\ UNCHANGED <<files, order, cacheDir, newer>>
     ELSE LET r == process_pdf(f, files, cacheDir, newer, ~force_refresh)
          IN  /\ cacheDir' = r.store
              /\ newer' = r.newer
              /\ response' = [data |-> None, status |-> IF r.raised THEN 500 ELSE 200]
              /\ UNCHANGED <<files, order>>

\* GET /api/transactions/<filename>
get_file_transactions(f, force_refresh) ==
  /\ UNCHANGED elsewhere
  /\ IF IsNone(files[f])
     THEN /\ response' = [data |-> None, status |-> 404]
          /\ UNCHANGED <<files, order, cacheDir, newer>>
     ELSE LET r == process_pdf(f, files, cacheDir, newer, ~force_refresh)
              \* result.get of a JSON array raises
              failed == r.raised \/ Val(r.result).kind = "list"
          IN  /\ cacheDir' = r.store
              /\ newer' = r.newer
              /\ response' = [data |-> None, status |-> IF failed THEN 500 ELSE 200]
              /\ UNCHANGED <<files, order>>

\* the three routes that call combine_all_transactions and return its result
Respond(c) ==
  /\ cacheDir' = c.store
  /\ newer' = c.newer
  /\ response' = [data |-> Some(c.result), status |-> 200]
  /\ UNCHANGED <<files, order>>
  /\ UNCHANGED elsewhere

Combine(force_refresh) ==
  Respond(combine_all_transactions(scan_readerfiles_folder, files, cacheDir, newer, force_refresh))

\* GET /api/process-all
process_all(force_refresh) == Combine(force_refresh)
\* GET /api/transactions
get_transactions(force_refresh) == Combine(force_refresh)
\* POST /api/refresh
refresh_all == Combine(TRUE)

\* POST /api/categories/assign
assign_category(group_key, category) ==
  /\ UNCHANGED elsewhere
  /\ LET r == set_category_override(group_key, category, cacheDir)
     IN  /\ cacheDir' = r.store
         /\ newer' = IF IsNone(r.raised) THEN newer \cup {CATEGORY_OVERRIDES_PATH} ELSE newer
         /\ response' = [data |-> None, status |-> StatusOf(r.raised)]
         /\ UNCHANGED <<files, order>>

\* POST /api/categories
categories_route(label) ==
  /\ UNCHANGED elsewhere
  /\ LET r == add_custom_category(label, cacheDir)
     IN  /\ cacheDir' = r.store
         /\ newer' = IF IsNone(r.raised) THEN newer \cup {CUSTOM_CATEGORIES_PATH} ELSE newer
         /\ response' = [data |-> None, status |-> StatusOf(r.raised)]
         /\ UNCHANGED <<files, order>>

\* one request, its values drawn from the given sets
Requests(names, docs, keys, categories, labels) ==
  \/ \E f \in names, doc \in docs : upload_file(f, doc)
  \/ \E f \in names \cap PdfNames, force \in BOOLEAN : process_file(f, force)
  \/ \E f \in names \cap PdfNames, force \in BOOLEAN : get_file_transactions(f, force)
  \/ \E force \in BOOLEAN : process_all(force)
  \/ \E force \in BOOLEAN : get_transactions(force)
  \/ refresh_all
  \/ \E k \in keys, c \in categories : assign_category(k, c)
  \/ \E label \in labels : categories_route(label)

\* statements under ordinary names
Next ==
  Requests(StatementNames \cup {NotesTxt}, Documents, GroupKeyInputs,
           BuiltinCategoryInputs, BuiltinLabelInputs)

Spec == Init /\ [][Next]_vars

\* uploads under the names of the cache folder's own files
NextStore ==
  Requests(StoreNames \cup {NotesTxt}, StoreDocuments, GroupKeyInputs, CategoryInputs, LabelInputs)

SpecStore == Init /\ [][NextStore]_vars


(***************************************************************************)
(* Requests to /api/categories/assign served at the same time.  The server  *)
(* of app.run serves each request in a thread of its own and                *)
(* set_category_override takes no lock: a call reads the file of the        *)
(* overrides, opens it for writing, which empties it, and writes the        *)
(* modified overrides.  Each thread serves one request.                     *)
(***************************************************************************)
\* the group keys and categories of the requests served at the same time
ConcurrentKeys == {"", "2024-02-01:250.00", "2024-03-05:250.00"}
ConcurrentCategories ==
  { JsonString(<<"a","u","t","o">>),
    JsonString(<<" ","F","u","e","l">>),
    JsonString(<<"f","o","o","d","s">>),
    JsonString(<<"b","o","g","u","s">>) }

Returned(call, status) == [call EXCEPT !.pc = "returned", !.status = status]

\* lines 294-297: the call of thread t checks the key and loads the overrides
load_overrides(t, group_key, category) ==
  /\ inflight[t].pc = "idle"
  /\ IF group_key = ""
     THEN /\ inflight' = [inflight EXCEPT ![t] = Returned(@, StatusOf(Some("ValueError")))]
          /\ response' = [data |-> None, status |-> StatusOf(Some("ValueError"))]
     ELSE /\ inflight' = [inflight EXCEPT ![t] =
                            [pc |-> "loaded", group_key |-> group_key, category |-> category,
                             overrides |-> load_category_overrides(cacheDir), status |-> 0]]
          /\ UNCHANGED response
  /\ UNCHANGED <<files, order, cacheDir, newer, reader>>

\* lines 299-306 and 209-210: the call modifies its overrides and, unless it
\* raises, opens the file for writing
OpenModified(t, modified) ==
  IF IsNone(modified.raised)
  THEN /\ cacheDir' = [cacheDir EXCEPT ![CATEGORY_OVERRIDES_PATH] = Some(JsonEmpty)]
       /\ inflight' = [inflight EXCEPT ![t].pc = "opened", ![t].overrides = modified.overrides]
       /\ UNCHANGED response
  ELSE /\ inflight' = [inflight EXCEPT ![t] = Returned(@, StatusOf(modified.raised))]
       /\ response' = [data |-> None, status |-> StatusOf(modified.raised)]
       /\ UNCHANGED cacheDir

open_overrides(t) ==
  /\ inflight[t].pc = "loaded"
  /\ OpenModified(t, ModifyOverrides(inflight[t].group_key, inflight[t].category,
                                     inflight[t].overrides, get_category_label_map(cacheDir)))
  /\ UNCHANGED <<files, order, newer, reader>>

\* line 211 and the return: the call writes its overrides and the file is closed
dump_overrides(t) ==
  /\ inflight[t].pc = "opened"
  /\ cacheDir' = save_category_overrides(cacheDir, inflight[t].overrides)
  /\ newer' = newer \cup {CATEGORY_OVERRIDES_PATH}
  /\ inflight' = [inflight EXCEPT ![t] = Returned(@, StatusOf(None))]
  /\ response' = [data |-> None, status |-> StatusOf(None)]
  /\ UNCHANGED <<files, order, reader>>

NextConcurrent ==
  \/ \E t \in Threads, k \in ConcurrentKeys, c \in ConcurrentCategories : load_overrides(t, k, c)
  \/ \E t \in Threads : open_overrides(t)
  \/ \E t \in Threads : dump_overrides(t)

SpecConcurrent == Init /\ [][NextConcurrent]_vars

(***************************************************************************)
(* detect_format and extract_transaction_lines, on a document of one page  *)
(* given as the lines of its text (text.split('\n'))                       *)
(***************************************************************************)

\* `marker in text_upper`: no marker holds a line break
InText(lines, marker) == \E k \in DOMAIN lines : Contains(Upper(lines[k]), marker)

\* re.search(r'\d{2}/\d{2}/\d{2}', text)
ShortDateIn(lines) ==
  \E k \in DOMAIN lines : \E p \in 0..(Len(lines[k]) - 8) : ShortDateAt(lines[k], p)

\* a variant of detect_format that looks for the credit card first
detect_format_CardFirst(lines) ==
  IF InText(lines, <<"H","D","F","C">>) /\ InText(lines, <<"C","R","E","D","I","T"," ","C","A","R","D">>)
  THEN "hdfc_credit_statement"
  ELSE IF InText(lines, <<"T","R","A","N","S","A","C","T","I","O","N"," ","S","T","A","T","E","M","E","N","T">>) /\ InText(lines, <<"P","H","O","N","E","P","E">>)
  THEN "phonepe"
  ELSE IF /\ InText(lines, <<"H","D","F","C"," ","B","A","N","K">>) /\ InText(lines, <<"S","T","A","T","E","M","E","N","T"," ","O","F"," ","A","C","C","O","U","N","T">>)
          /\ ShortDateIn(lines)
  THEN "hdfc_account_statement"
  ELSE IF InText(lines, <<"S","T","A","T","E","M","E","N","T">>) THEN "bank_statement"
  ELSE "unknown"

\* lines 859-873
detect_format(lines) ==
  IF InText(lines, <<"T","R","A","N","S","A","C","T","I","O","N"," ","S","T","A","T","E","M","E","N","T">>) /\ InText(lines, <<"P","H","O","N","E","P","E">>)
  THEN "phonepe"
  ELSE IF /\ InText(lines, <<"H","D","F","C"," ","B","A","N","K">>) /\ InText(lines, <<"S","T","A","T","E","M","E","N","T"," ","O","F"," ","A","C","C","O","U","N","T">>)
          /\ ShortDateIn(lines)
  THEN "hdfc_account_statement"
  ELSE IF /\ InText(lines, <<"H","D","F","C">>)
          /\ (InText(lines, <<"C","R","E","D","I","T"," ","C","A","R","D">>) \/ InText(lines, <<"C","R","E","D","I","T"," ","C","A","R","D"," ","S","T","A","T","E","M","E","N","T">>))
  THEN "hdfc_credit_statement"
  ELSE IF InText(lines, <<"S","T","A","T","E","M","E","N","T">>) \/ InText(lines, <<"A","C","C","O","U","N","T"," ","S","T","A","T","E","M","E","N","T">>)
  THEN "bank_statement"
  ELSE "unknown"

\* lines 891-893: the words of a header line
header_keywords ==
  <<<<"D","A","T","E">>, <<"T","I","M","E">>, <<"T","R","A","N","S","A","C","T","I","O","N">>, <<"D","E","S","C","R","I","P","T","I","O","N">>, <<"A","M","O","U","N","T">>,
    <<"S","T","A","T","E","M","E","N","T">>, <<"P","A","G","E">>>>

\* lines 932, 990, 1027: the words looked for in an assembled block
assembled_keywords ==
  <<<<"S","T","A","T","E","M","E","N","T","S","U","M","M","A","R","Y">>, <<"S","T","A","T","E","M","E","N","T"," ","S","U","M","M","A","R","Y">>, <<"O","P","E","N","I","N","G","B","A","L","A","N","C","E">>,
    <<"O","P","E","N","I","N","G"," ","B","A","L","A","N","C","E">>>>

\* lines 907-908, 934-935, 992-993, 1029-1030: the counts of a summary
CountSummary(upper) ==
  /\ Contains(upper, <<"D","R","C","O","U","N","T">>) \/ Contains(upper, <<"C","R","C","O","U","N","T">>)
  /\ Contains(upper, <<"D","E","B","I","T","S">>) \/ Contains(upper, <<"C","R","E","D","I","T","S">>)

\* lines 886-909: the stripped line is passed over
SkippedLine(line) ==
  \/ line = <<>>
  \/ AnyIn(header_keywords, Upper(line))
  \/ AnyIn(summary_keywords, Upper(line))
  \/ CountSummary(Upper(line))

\* the test of a block after its assembly
AssembledSummary(block) ==
  AnyIn(assembled_keywords, Upper(block)) \/ CountSummary(Upper(block))

\* sep.join(parts)
RECURSIVE Join(_, _)
Join(sep, parts) ==
  IF parts = <<>> THEN <<>>
  ELSE IF Len(parts) = 1 THEN parts[1]
  ELSE parts[1] \o sep \o Join(sep, Tail(parts))

\* lines 943-946: the line begins with a date of either pattern
StartsWithDate(line) == LongDateAt(line, 0) \/ ShortDateAt(line, 0)

\* the line begins a block of the format
BeginsBlock(line, wallet) ==
  IF wallet THEN ~IsNone(SearchMonthDate(line, 0)) ELSE StartsWithDate(line)

\* lines 917-927, 1011-1022: the stripped lines from number j to number last
\* that continue a block: up to a blank line or a line that begins a block
RECURSIVE Continued(_, _, _, _)
Continued(lines, j, last, wallet) ==
  IF j > Len(lines) \/ j > last THEN <<>>
  ELSE IF Strip(lines[j]) = <<>> \/ BeginsBlock(Strip(lines[j]), wallet) THEN <<>>
  ELSE <<Strip(lines[j])>> \o Continued(lines, j + 1, last, wallet)

Assembled(block) == IF AssembledSummary(block) THEN <<>> ELSE <<block>>

\* lines 912-938: the block of line number i of a wallet statement
WalletBlocks(lines, i) ==
  IF IsNone(SearchMonthDate(Strip(lines[i]), 0)) THEN <<>>
  ELSE Assembled(Join(<<" ","|"," ">>, <<Strip(lines[i])>> \o Continued(lines, i + 1, i + 4, TRUE)))

\* line 975: re.match(r'^\d{2}/\d{2}/\d{2}\s+[A-Z]', line[pos:pos+30]) at a
\* date of the line
DateThenUpper(line, pos) ==
  /\ SpacesEnd(line, pos + 8) > pos + 8
  /\ SpacesEnd(line, pos + 8) < pos + 30
  /\ At(line, SpacesEnd(line, pos + 8)) \in Range(UpperLetters)

\* lines 960-978: transaction_starts after the dates from number k on
RECURSIVE TransactionStarts(_, _, _, _)
TransactionStarts(line, date_matches, k, transaction_starts) ==
  IF k > Len(date_matches) THEN transaction_starts
  ELSE IF /\ Group(line, date_matches[k]) # Group(line, date_matches[1])
          /\ HdfcAmounts(Slice(line, transaction_starts[Len(transaction_starts)],
                               date_matches[k].start), 0) # <<>>
          /\ DateThenUpper(line, date_matches[k].start)
  THEN TransactionStarts(line, date_matches, k + 1,
                         Append(transaction_starts, date_matches[k].start))
  ELSE TransactionStarts(line, date_matches, k + 1, transaction_starts)

\* lines 981-986: the segments of the line between the starts
Segments(line, transaction_starts) ==
  [idx \in DOMAIN transaction_starts |->
     Strip(Slice(line, transaction_starts[idx],
                 IF idx < Len(transaction_starts) THEN transaction_starts[idx + 1]
                 ELSE Len(line)))]

\* lines 987-997: a segment is emitted
EmittedSegment(segment) ==
  segment # <<>> /\ HdfcAmounts(segment, 0) # <<>> /\ ~AssembledSummary(segment)

SplitBlocks(line, transaction_starts) ==
  SelectSeq(Segments(line, transaction_starts), EmittedSegment)

\* lines 1009-1035: the line and up to three lines that continue it
SingleBlocks(lines, i) ==
  Assembled(Join(<<" ">>, <<Strip(lines[i])>> \o Continued(lines, i + 1, i + 3, FALSE)))

StartsOf(line, date_matches) ==
  IF Len(date_matches) >= 2
  THEN TransactionStarts(line, date_matches, 2, <<date_matches[1].start>>)
  ELSE <<>>

\* lines 948-1036: the blocks of line number i that begins with a date
DatedBlocks(lines, i, format) ==
  IF /\ format = "hdfc_account_statement"
     /\ Len(StartsOf(Strip(lines[i]), HdfcDates(Strip(lines[i]), 0))) > 1
  THEN SplitBlocks(Strip(lines[i]), StartsOf(Strip(lines[i]), HdfcDates(Strip(lines[i]), 0)))
  ELSE SingleBlocks(lines, i)

\* lines 880-1036: the blocks one pass of the loop appends, at line number i
LineBlocks(lines, i, format) ==
  IF SkippedLine(Strip(lines[i])) THEN <<>>
  ELSE IF format = "phonepe" THEN WalletBlocks(lines, i)
  ELSE IF StartsWithDate(Strip(lines[i])) THEN DatedBlocks(lines, i, format)
  ELSE <<>>


\* the pages of the model: a heading and up to MaxLines lines
MaxLines == 2

\* headings: of a bank account, a wallet, a credit card, any statement, none
\* of them, all of them at once, and a bank account that offers a credit card
HeadingAccount == <<"H","D","F","C"," ","B","a","n","k"," ","L","t","d","."," ","S","t","a","t","e","m","e","n","t"," ","o","f"," ","a","c","c","o","u","n","t">>
HeadingWallet == <<"P","h","o","n","e","P","e"," ","T","r","a","n","s","a","c","t","i","o","n"," ","S","t","a","t","e","m","e","n","t">>
HeadingCard == <<"H","D","F","C"," ","C","r","e","d","i","t"," ","C","a","r","d"," ","S","t","a","t","e","m","e","n","t">>
HeadingGeneric == <<"A","c","c","o","u","n","t"," ","S","t","a","t","e","m","e","n","t">>
HeadingNone == <<"S","a","v","i","n","g","s"," ","p","a","s","s","b","o","o","k">>
HeadingAll ==
  <<"P","h","o","n","e","P","e"," ","T","r","a","n","s","a","c","t","i","o","n"," ","S","t","a","t","e","m","e","n","t"," ","H","D","F","C"," ","B","a","n","k"," ","S","t","a","t","e","m","e","n","t"," ","o","f"," ","a","c","c","o","u","n","t"," ","0","1","/","0","2","/","2","4"," ","C","r","e","d","i","t"," ","C","a","r","d">>
HeadingAccountCard == <<"H","D","F","C"," ","B","a","n","k"," ","S","t","a","t","e","m","e","n","t"," ","o","f"," ","a","c","c","o","u","n","t"," ","C","r","e","d","i","t"," ","C","a","r","d"," ","o","f","f","e","r","s">>
HeadingPool ==
  {HeadingAccount, HeadingWallet, HeadingCard, HeadingGeneric, HeadingNone, HeadingAll,
   HeadingAccountCard}

\* lines: a purchase, two transactions of one day on one line, two
\* transactions of two days on one line, the counts of a summary, a purchase
\* at a merchant whose name holds the word TIME, and the closing balance
LineCoffee == <<"0","1","/","0","2","/","2","4"," ","U","P","I","-","S","T","A","R","B","U","C","K","S"," ","0","0","0","0","1","2","3","4","5","6","7","8","9","0","1","2"," ","0","1","/","0","2","/","2","4"," ","2","5","0",".","0","0"," ","9",",","7","5","0",".","0","0">>
LineSameDay ==
  <<"0","2","/","0","2","/","2","4"," ","N","E","F","T"," ","A","C","M","E"," ","L","T","D"," ","0","0","0","0","2","2","3","4","5","6","7","8","9","0","1","2"," ","0","2","/","0","2","/","2","4"," ","5","0","0",".","0","0"," ","1","0",",","2","5","0",".","0","0"," ","0","2","/","0","2","/","2","4"," ","U","P","I","-","S","W","I","G","G","Y"," ","0","0","0","0","2","3","3","4","5","6","7","8","9","0","1","2"," ","0","2","/","0","2","/","2","4"," ","2","5","0",".","0","0"," ","1","0",",","0","0","0",".","0","0">>
LineTwoDays ==
  <<"0","2","/","0","2","/","2","4"," ","N","E","F","T"," ","A","C","M","E"," ","L","T","D"," ","0","0","0","0","2","2","3","4","5","6","7","8","9","0","1","2"," ","0","2","/","0","2","/","2","4"," ","5","0","0",".","0","0"," ","1","0",",","2","5","0",".","0","0"," ","0","3","/","0","2","/","2","4"," ","C","A","R","D"," ","R","E","F","U","N","D"," ","0","0","0","0","3","2","3","4","5","6","7","8","9","0","1","2"," ","0","3","/","0","2","/","2","4"," ","2","5","0",".","0","0"," ","1","0",",","0","0","0",".","0","0">>
LineCounts == <<"D","R"," ","C","O","U","N","T"," ","2"," ","C","R"," ","C","O","U","N","T"," ","0"," ","D","E","B","I","T","S"," ","5","0","0",".","0","0"," ","C","R","E","D","I","T","S"," ","0",".","0","0">>
LineLifetime == <<"0","5","/","0","2","/","2","4"," ","U","P","I","-","L","I","F","E","T","I","M","E"," ","G","Y","M"," ","0","0","0","0","5","2","3","4","5","6","7","8","9","0","1","2"," ","0","5","/","0","2","/","2","4"," ","2","5","0",".","0","0"," ","9",",","5","0","0",".","0","0">>
LineClosing == <<"C","L","O","S","I","N","G"," ","B","A","L","A","N","C","E"," ","9",",","5","0","0",".","0","0">>
LinePool ==
  {LineCoffee, LineSameDay, LineTwoDays, LineCounts, LineLifetime, LineClosing}

Pages ==
  {<<h>> \o body : h \in HeadingPool,
                   body \in UNION {[1..n -> LinePool] : n \in 0..MaxLines}}

\* the blocks of each line of a page
RECURSIVE BlocksFrom(_, _, _)
BlocksFrom(lines, i, format) ==
  IF i > Len(lines) THEN <<>>
  ELSE <<LineBlocks(lines, i, format)>> \o BlocksFrom(lines, i + 1, format)

\* extract_transaction_lines(text, format_type): the blocks of every pass
RECURSIVE Flat(_)
Flat(lists) == IF lists = <<>> THEN <<>> ELSE Head(lists) \o Flat(Tail(lists))
extract_transaction_lines(lines, format) == Flat(BlocksFrom(lines, 1, format))

\* detect_format and the passes of extract_transaction_lines over the pages
\* of the model, computed once
FormatTable == {<<p, detect_format(p)>> : p \in Pages}
BlocksTable == {<<c, BlocksFrom(c[1], 1, c[2])>> : c \in FormatTable}
Format(lines) == Get(FormatTable, lines)
BlocksAt(lines, i, format) == Get(BlocksTable, <<lines, format>>)[i]

\* the blocks extract_transaction_lines gives on the pages of the model
PageBlockPool == UNION {UNION {Range(c[2][i]) : i \in DOMAIN c[2]} : c \in BlocksTable}

(***************************************************************************)
(* The loop of BankStatementReaderAI.extract_transactions over the blocks   *)
(* of one document (lines 1107-1153).                                       *)
(***************************************************************************)
\* the most blocks a document of the model has
MaxBlocks == 3

\* a purchase, a transfer received, a refund after which the balance is lower,
\* a purchase whose amount stands far from the value date, a payment that
\* empties the account, a line of the statement summary, a returned cheque
\* without amounts, and a block dated 31 February
BlockCoffee == <<"0","1","/","0","2","/","2","4"," ","U","P","I","-","S","T","A","R","B","U","C","K","S"," ","0","0","0","0","1","2","3","4","5","6","7","8","9","0","1","2"," ","0","1","/","0","2","/","2","4"," ","2","5","0",".","0","0"," ","9",",","7","5","0",".","0","0">>
BlockTransfer == <<"0","2","/","0","2","/","2","4"," ","N","E","F","T"," ","A","C","M","E"," ","L","T","D"," ","0","0","0","0","2","2","3","4","5","6","7","8","9","0","1","2"," ","0","2","/","0","2","/","2","4"," ","5","0","0",".","0","0"," ","1","0",",","2","5","0",".","0","0">>
BlockRefund == <<"0","3","/","0","2","/","2","4"," ","C","A","R","D"," ","R","E","F","U","N","D"," ","0","0","0","0","3","2","3","4","5","6","7","8","9","0","1","2"," ","0","3","/","0","2","/","2","4"," ","2","5","0",".","0","0"," ","1","0",",","0","0","0",".","0","0">>
BlockWide ==
  <<"0","4","/","0","2","/","2","4"," ","U","P","I","-","S","W","I","G","G","Y"," ","0","0","0","0","4","2","3","4","5","6","7","8","9","0","1","2"," ","0","4","/","0","2","/","2","4">> \o [i \in 1..41 |-> " "] \o <<"2","5","0",".","0","0"," ","9",",","7","5","0",".","0","0">>
BlockEmptied == <<"0","5","/","0","2","/","2","4"," ","C","R","E","D","I","T"," ","C","A","R","D"," ","P","A","Y","M","E","N","T"," ","0","0","0","0","5","2","3","4","5","6","7","8","9","0","1","2"," ","0","5","/","0","2","/","2","4"," ","9",",","7","5","0",".","0","0"," ","0",".","0","0">>
BlockSummary == <<"O","P","E","N","I","N","G"," ","B","A","L","A","N","C","E"," ","1","0",",","0","0","0",".","0","0">>
BlockReturn == <<"0","6","/","0","2","/","2","4"," ","C","H","E","Q","U","E"," ","R","E","T","U","R","N"," ","0","0","0","0","6","2","3","4","5","6","7","8","9","0","1","2"," ","0","6","/","0","2","/","2","4">>
BlockSalary == <<"3","1","/","0","2","/","2","4"," ","S","A","L","A","R","Y"," ","0","0","0","0","7","2","3","4","5","6","7","8","9","0","1","2"," ","3","1","/","0","2","/","2","4"," ","5","0","0",".","0","0"," ","1","0",",","2","5","0",".","0","0">>

\* a block whose first 4-digit-year date is of the year 999
BlockAncient == <<"0","1","/","0","2","/","2","4"," ","U","P","I","-","O","L","D"," ","0","0","0","0","8","2","3","4","5","6","7","8","9","0","1","2"," ","0","1","/","0","2","/","0","9","9","9"," ","2","5","0",".","0","0"," ","9",",","7","5","0",".","0","0">>

\* instrument codes against the other signals: a credit code where the balance
\* went down by the amount, a credit code before three amounts, a debit code
\* with credit words, wide spacing and a balance that went up by the amount
BlockAchCredit == <<"0","7","/","0","2","/","2","4"," ","A","C","H","C","-","A","C","M","E"," ","P","A","Y","M","E","N","T"," ","0","0","0","0","7","2","3","4","5","6","7","8","9","0","1","2"," ","0","7","/","0","2","/","2","4"," ","2","5","0",".","0","0"," ","9",",","7","5","0",".","0","0">>
BlockAchColumns == <<"0","7","/","0","2","/","2","4"," ","A","C","H","C","-","A","C","M","E"," ","D","E","B","I","T"," ","0","0","0","0","7","3","3","4","5","6","7","8","9","0","1","2"," ","0","7","/","0","2","/","2","4"," ","2","5","0",".","0","0"," ","1","0","0",".","0","0"," ","9",",","5","0","0",".","0","0">>
BlockAchDebit == <<"0","8","/","0","2","/","2","4"," ","A","C","H","D","-","R","E","F","U","N","D"," ","S","A","L","A","R","Y"," ","0","0","0","0","8","2","3","4","5","6","7","8","9","0","1","2"," ","0","8","/","0","2","/","2","4"," "," "," "," "," "," "," "," "," "," "," "," "," "," "," "," "," "," "," "," "," "," "," "," "," "," "," "," "," "," "," "," "," "," "," "," "," "," "," "," "," ","2","5","0",".","0","0"," ","1","0",",","0","0","0",".","0","0">>
\* the three columns, with an empty withdrawal and with both amounts
BlockDeposit == <<"0","9","/","0","2","/","2","4"," ","N","E","F","T"," ","A","C","M","E"," ","L","T","D"," ","0","0","0","0","9","2","3","4","5","6","7","8","9","0","1","2"," ","0","9","/","0","2","/","2","4"," ","0",".","0","0"," ","5","0","0",".","0","0"," ","1","0",",","2","5","0",".","0","0">>
BlockColumns == <<"0","9","/","0","2","/","2","4"," ","I","M","P","S"," ","A","C","M","E"," ","L","T","D"," ","0","0","0","0","9","3","3","4","5","6","7","8","9","0","1","2"," ","0","9","/","0","2","/","2","4"," ","2","5","0",".","0","0"," ","5","0","0",".","0","0"," ","1","0",",","2","5","0",".","0","0">>
\* a block in which no date, amount or description is found
BlockBrackets == <<"|","|"," ","[","]"," ","|","|"," ","[","]"," ","|","|">>

BlockPool ==
  {BlockCoffee, BlockTransfer, BlockRefund, BlockWide, BlockEmptied, BlockSummary,
   BlockReturn, BlockSalary, BlockAncient, BlockAchCredit, BlockAchColumns, BlockAchDebit,
   BlockDeposit, BlockColumns, BlockBrackets}

\* the block lists of the model: up to MaxBlocks blocks
BlockLists == UNION {[1..n -> BlockPool] : n \in 1..MaxBlocks}

\* f"{num_amount:,.2f}" of the digits before the decimal point
RECURSIVE Grouped(_)
Grouped(ds) ==
  IF Len(ds) <= 3 THEN ds
  ELSE Grouped(SubSeq(ds, 1, Len(ds) - 3)) \o <<",">> \o SubSeq(ds, Len(ds) - 2, Len(ds))

\* format_amount(amount, currency) of an amount parse_with_ai gives; the rupee
\* sign is written Rs
format_amount(amount, currency) ==
  IF amount = <<>> THEN amount
  ELSE (IF currency = "INR" THEN <<"R","s">>
        ELSE IF currency = "USD" THEN <<"$">> ELSE <<"E","U","R"," ">>)
       \o (IF WholeDigits(amount) = <<>> THEN <<"0">> ELSE Grouped(WholeDigits(amount)))
       \o SubSeq(amount, Len(amount) - 2, Len(amount))

\* lines 1118-1131: the balance of the block, its last amount.  Balances are
\* numbers of hundredths below 21,474,836.48.
BalanceOf(raw_line, amount_matches) ==
  IF amount_matches # <<>>
     /\ Between(Group(raw_line, amount_matches[Len(amount_matches)]), 0, 100000000)
  THEN Some(Num(Group(raw_line, amount_matches[Len(amount_matches)])))
  ELSE None
current_balance(raw_line) == BalanceOf(raw_line, HdfcAmounts(raw_line, 0))

\* current_balance and parse_with_ai over the blocks of the model and the
\* balances they can be parsed with, computed once
BalanceTable == {<<b, current_balance(b)>> : b \in BlockPool}
BalancePool == {None} \cup {p[2] : p \in BalanceTable}
ParseTable == {<<c, parse_with_ai(c[1], c[2])>> : c \in BlockPool \X BalancePool}
\* the same over the blocks of the pages of the model
PageBalanceTable == {<<b, current_balance(b)>> : b \in PageBlockPool}
PageBalancePool == {None} \cup {p[2] : p \in PageBalanceTable}
PageParseTable == {<<c, parse_with_ai(c[1], c[2])>> : c \in PageBlockPool \X PageBalancePool}
Balance(raw_line) ==
  IF raw_line \in BlockPool THEN Get(BalanceTable, raw_line)
  ELSE Get(PageBalanceTable, raw_line)
Parsed(raw_line, previous) ==
  IF raw_line \in BlockPool /\ previous \in BalancePool
  THEN Get(ParseTable, <<raw_line, previous>>)
  ELSE Get(PageParseTable, <<raw_line, previous>>)
\* lines 1133-1143
formatted_transaction(parsed) ==
  [parsed EXCEPT !.amount = format_amount(parsed.amount, parsed.currency)]

\* a variant of Threaded that forgets the balance at a block without one
Threaded_Reset(parsed, balance, previous) ==
  IF IsNone(parsed) THEN previous ELSE balance

\* lines 1115, 1148-1150: previous_balance after a block, from the result of
\* parse_with_ai and the balance of the block
Threaded(parsed, balance, previous) ==
  IF IsNone(parsed) \/ IsNone(balance) THEN previous ELSE balance

\* one pass of the loop, on a block that parses to this
TakeBlock(raw_line, parsed) ==
  /\ taken' = taken + 1
  /\ passed' = Append(passed, previous_balance)
  /\ parsed_transactions' =
       IF IsNone(parsed) THEN parsed_transactions
       ELSE Append(parsed_transactions, formatted_transaction(Val(parsed)))
  /\ previous_balance' = Threaded(parsed, Balance(raw_line), previous_balance)

\* lines 1110-1153: one pass of the loop
parse_block ==
  /\ taken < Len(all_transaction_lines)
  /\ TakeBlock(all_transaction_lines[taken + 1],
               Parsed(all_transaction_lines[taken + 1], previous_balance))
  /\ UNCHANGED <<files, order, cacheDir, newer, response, inflight, all_transaction_lines, page>>

InitExtract ==
  /\ InitFolders
  /\ inflight = [t \in Threads |-> NotCalled]
  /\ \E blocks \in BlockLists : InitReader(blocks)

NextExtract == parse_block

SpecExtract == InitExtract /\ [][NextExtract]_vars

(***************************************************************************)
(* extract_transactions on a page: detect_format, the loop of              *)
(* extract_transaction_lines line by line, then the loop over the blocks   *)
(***************************************************************************)

\* lines 1040-1060: before detect_format
InitPage(lines) ==
  /\ all_transaction_lines = <<>>
  /\ taken = 0
  /\ previous_balance = None
  /\ parsed_transactions = <<>>
  /\ passed = <<>>
  /\ page_text = lines
  /\ format_type = NotDetected
  /\ scanned = 0
  /\ started = <<>>

\* the blocks and the balances the tables hold
Tabulated == Keys(ParseTable) \cup Keys(PageParseTable)

\* the tables hold what the blocks of the page parse to
InTables(lines) ==
  \A b \in Range(Flat(Get(BlocksTable, <<lines, Format(lines)>>))) :
    \A previous \in PageBalancePool : <<b, previous>> \in Tabulated

InitLines ==
  /\ InitFolders
  /\ inflight = [t \in Threads |-> NotCalled]
  /\ \E lines \in Pages : InTables(lines) /\ InitPage(lines)

\* format_type = self.detect_format(combined_text)
detect_page_format ==
  /\ format_type = NotDetected
  /\ format_type' = Format(page_text)
  /\ UNCHANGED <<files, order, cacheDir, newer, response, inflight, all_transaction_lines,
                 taken, previous_balance, parsed_transactions, passed, page_text, scanned, started>>

ScanLine(blocks) ==
  /\ scanned' = scanned + 1
  /\ all_transaction_lines' = all_transaction_lines \o blocks
  /\ started' = started \o [k \in DOMAIN blocks |-> scanned + 1]

\* lines 880-1036: one pass of the loop of extract_transaction_lines
scan_line ==
  /\ format_type # NotDetected
  /\ scanned < Len(page_text)
  /\ ScanLine(BlocksAt(page_text, scanned + 1, format_type))
  /\ UNCHANGED <<files, order, cacheDir, newer, response, inflight, taken, previous_balance,
                 parsed_transactions, passed, page_text, format_type>>

\* the loop over the blocks begins once every line has been visited
parse_page_block ==
  /\ format_type # NotDetected
  /\ scanned = Len(page_text)
  /\ parse_block

NextLines == detect_page_format \/ scan_line \/ parse_page_block

SpecLines == InitLines /\ [][NextLines]_vars

(***************************************************************************)
(* The calls of add_custom_category and set_category_override alone, from  *)
(* empty stores                                                            *)
(***************************************************************************)
CategoryKeys == GroupKeyInputs \cup {"2024-03-05:250.00", "__ungrouped__0"}
CategoryLabels == LabelInputs \cup {<<"P","e","t"," ","C","a","r","e">>}
CategoryChoices == CategoryInputs \cup {JsonString(<<"p","e","t","_","c","a","r","e">>), JsonString(<<"G","Y","M"," ">>)}

NextCategories ==
  \/ \E k \in CategoryKeys, c \in CategoryChoices : assign_category(k, c)
  \/ \E label \in CategoryLabels : categories_route(label)

SpecCategories == Init /\ [][NextCategories]_vars

(***************************************************************************)
(* Properties of the combined result.  The response to a route that         *)
(* combines all transactions carries the result; HasData says the latest    *)
(* request was to such a route.                                             *)
(***************************************************************************)
HasData == ~IsNone(response.data)
Data == Val(response.data)

Transactions == Data.transactions
Collapsed == Data.collapsedTransactions

KeysOf(txs) == {txs[i].duplicateGroupKey : i \in DOMAIN txs}
KeyCount(txs, k) == Cardinality({i \in DOMAIN txs : txs[i].duplicateGroupKey = k})

\* the transaction has a normalised date and an amount value
Groupable(tx) == Strptime(tx.date, "%Y-%m-%d") /\ ~IsNone(tx.amountValue)

\* the copy of a transaction a collapsed entry lists
Member(tx) == [k \in DOMAIN tx \ {"sourceFileMetadata"} |-> tx[k]]

\* C1: the duplicateCount values of the collapsed entries add up to the number
\* of transactions, which is summary.totalTransactions.
DuplicateCountsSumToTotal ==
  HasData =>
    /\ SumSeq([i \in DOMAIN Collapsed |-> Collapsed[i].duplicateCount]) = Len(Transactions)
    /\ Data.summary.totalTransactions = Len(Transactions)

\* a result with a group of several members and a group of one
DuplicateCountsWitness ==
  /\ HasData
  /\ Len(Transactions) >= 3
  /\ \E i \in DOMAIN Collapsed : Collapsed[i].duplicateCount >= 2
  /\ \E i \in DOMAIN Collapsed : Collapsed[i].duplicateCount = 1

\* the keys that more than one transaction carries
SharedKeys(txs) == {k \in KeysOf(txs) : KeyCount(txs, k) > 1}

\* C2: summary.duplicateGroupCount, the length of duplicateGroups, is the
\* number of keys with more than one member, and duplicateGroups lists
\* exactly those keys.
DuplicateGroupCountIsSharedKeys ==
  HasData =>
    /\ Data.summary.duplicateGroupCount = Cardinality(SharedKeys(Transactions))
    /\ Len(Data.duplicateGroups) = Cardinality(SharedKeys(Transactions))
    /\ {Data.duplicateGroups[i].groupKey : i \in DOMAIN Data.duplicateGroups}
         = SharedKeys(Transactions)

\* a result with two keys of several members each
TwoSharedKeysWitness ==
  /\ HasData
  /\ Data.summary.duplicateGroupCount = 2

\* C3: every transaction is in exactly one group; one with a normalised date
\* and an amount value has the key "{date}:{amount with 2 decimals}", and one
\* that lacks either has the key of its index and is the only member of its
\* group.
EachTransactionInOneGroup ==
  HasData =>
    /\ \A g, h \in DOMAIN Collapsed :
         g # h => Collapsed[g].duplicateGroupKey # Collapsed[h].duplicateGroupKey
    /\ \A g \in DOMAIN Collapsed :
         /\ Len(Collapsed[g].transactions) = KeyCount(Transactions, Collapsed[g].duplicateGroupKey)
         /\ \A m \in DOMAIN Collapsed[g].transactions :
              Collapsed[g].transactions[m].duplicateGroupKey = Collapsed[g].duplicateGroupKey
    /\ \A i \in DOMAIN Transactions :
         /\ Cardinality({g \in DOMAIN Collapsed :
                           Member(Transactions[i]) \in Range(Collapsed[g].transactions)}) = 1
         /\ IF Groupable(Transactions[i])
            THEN Transactions[i].duplicateGroupKey
                   = IsoString(Transactions[i].date) \o ":"
                       \o Fixed2(Val(Transactions[i].amountValue))
            ELSE /\ Transactions[i].duplicateGroupKey = "__ungrouped__" \o ToString(i - 1)
                 /\ KeyCount(Transactions, Transactions[i].duplicateGroupKey) = 1

\* a result with a shared key, a transaction without a calendar date and a
\* transaction without an amount
BothUngroupableKindsWitness ==
  /\ HasData
  /\ SharedKeys(Transactions) # {}
  /\ \E i \in DOMAIN Transactions :
       ~Strptime(Transactions[i].date, "%Y-%m-%d") /\ ~IsNone(Transactions[i].amountValue)
  /\ \E i \in DOMAIN Transactions :
       Strptime(Transactions[i].date, "%Y-%m-%d") /\ IsNone(Transactions[i].amountValue)

\* the orders in which the files of a scan can be listed
Orderings(s) == {p \in [DOMAIN s -> Range(s)] : \A i, j \in DOMAIN s : i # j => p[i] # p[j]}

\* the place of a transaction among those of its file
RankInFile(txs, i) == Cardinality({j \in 1..i : txs[j].sourceFile = txs[i].sourceFile})

\* which transaction of which file carries which key, for those with a date and an amount
Membership(txs) ==
  {<<txs[i].sourceFile, RankInFile(txs, i), txs[i].duplicateGroupKey>> :
     i \in {j \in DOMAIN txs : Groupable(txs[j])}}

\* the groups of the keys with a date and an amount, and their sizes
GroupSizes(collapsed) ==
  {<<collapsed[g].duplicateGroupKey, collapsed[g].duplicateCount>> :
     g \in {h \in DOMAIN collapsed : Groupable(collapsed[h])}}

Recombined(pdf_files, force_refresh) ==
  combine_all_transactions(pdf_files, files, cacheDir, newer, force_refresh).result

\* C4: for the transactions with a date and an amount, the key of each and
\* the groups are the same in whatever order the files are processed.
GroupsIndependentOfFileOrder ==
  HasData =>
    \A p \in Orderings(order), force \in BOOLEAN :
      /\ Membership(Recombined(p, force).transactions) = Membership(Transactions)
      /\ GroupSizes(Recombined(p, force).collapsedTransactions) = GroupSizes(Collapsed)

\* a result of two files that share a key, with a transaction whose key does
\* change with the order of the files
FileOrderWitness ==
  /\ HasData
  /\ Len(order) = 2
  /\ \E i, j \in DOMAIN Transactions :
       /\ Transactions[i].sourceFile # Transactions[j].sourceFile
       /\ Transactions[i].duplicateGroupKey = Transactions[j].duplicateGroupKey
  /\ \E p \in Orderings(order) :
       KeysOf(Recombined(p, FALSE).transactions) # KeysOf(Transactions)

\* lines 491-565 applied to the transactions of a result
Restamped(txs) ==
  StampAll([i \in DOMAIN txs |->
              EnrichTransaction(txs[i], txs[i].sourceFile, txs[i].sourceFileMetadata.format)],
           load_category_overrides(cacheDir), cacheDir)

KeyList(txs) == [i \in DOMAIN txs |-> txs[i].duplicateGroupKey]
GroupList(groups) == [g \in DOMAIN groups |-> <<groups[g].groupKey, KeyList(groups[g].txs)>>]

\* the indices of the transactions of a scan
Indices == 0..(2 * MaxTxPerDoc)

\* C5: the key is a function of the normalised date, the amount value and,
\* for a transaction that lacks either, its index; stamping the transactions
\* of a result again gives the same keys and the same groups.
KeysStableUnderRestamping ==
  /\ \A t, u \in TxPool, index \in Indices :
       (/\ normalize_date_string(DateOrOriginal(t)) = normalize_date_string(DateOrOriginal(u))
        /\ AmountValueOf(t) = AmountValueOf(u))
         => GroupKey(t, index) = GroupKey(u, index)
  /\ HasData =>
       /\ KeyList(Restamped(Transactions)) = KeyList(Transactions)
       /\ GroupList(GroupAll(Restamped(Transactions))) = GroupList(GroupAll(Transactions))
       /\ KeyList(Restamped(Restamped(Transactions))) = KeyList(Transactions)

\* a result with a shared key, a key of an index and a subscription
RestampingWitness ==
  /\ HasData
  /\ SharedKeys(Transactions) # {}
  /\ \E i \in DOMAIN Transactions : ~Groupable(Transactions[i])
  /\ \E i \in DOMAIN Transactions : Transactions[i].isSubscription

(***************************************************************************)
(* Properties of the category overrides.                                    *)
(***************************************************************************)
Overrides == load_category_overrides(cacheDir)
LabelMap == get_category_label_map(cacheDir)

\* the key has a stored override that is a slug of the definition set
ValidOverride(k) == k \in Keys(Overrides) /\ Get(Overrides, k) \in LabelMap
\* the key has a stored override that is no slug of the definition set
InvalidOverride(k) == k \in Keys(Overrides) /\ Get(Overrides, k) \notin LabelMap

\* C6: a valid manual override wins: whatever the transaction,
\* resolve_transaction_category returns the slug with source manual, and so
\* do the transactions and collapsed entries of a result.
ValidManualOverrideWins ==
  /\ \A t \in TxPool, slug \in LabelMap :
       resolve_transaction_category("k", t, {<<"k", slug>>}, cacheDir) = <<slug, "manual">>
  /\ HasData =>
       /\ \A i \in DOMAIN Transactions :
            ValidOverride(Transactions[i].duplicateGroupKey) =>
              /\ Transactions[i].category = Get(Overrides, Transactions[i].duplicateGroupKey)
              /\ Transactions[i].categorySource = "manual"
       /\ \A g \in DOMAIN Collapsed :
            ValidOverride(Collapsed[g].duplicateGroupKey) =>
              /\ Collapsed[g].category = Get(Overrides, Collapsed[g].duplicateGroupKey)
              /\ Collapsed[g].categorySource = "manual"

\* a result with a transaction whose manual category is not its automatic one
ManualOverrideWitness ==
  /\ HasData
  /\ \E i \in DOMAIN Transactions :
       /\ ValidOverride(Transactions[i].duplicateGroupKey)
       /\ Transactions[i].categorySource = "manual"
       /\ Transactions[i].category # auto_categorize_transaction(Transactions[i])

\* the request writes an override: the category is neither empty nor "auto"
IsWrite(category) == ~Falsy(category) /\ category # JsonString(<<"a","u","t","o">>)
\* the category, stripped and in lower case, is a slug of the definition set
IsSlug(category, store) ==
  /\ category.type = "string"
  /\ Str(Lower(Strip(category.chars))) \in get_category_label_map(store)

\* C7: a request to write an override whose category is no slug of the
\* definition set is answered 400 and leaves the stored overrides as they were.
InvalidOverrideRejected ==
  [][\A k \in GroupKeyInputs, c \in CategoryInputs :
       (assign_category(k, c) /\ IsWrite(c) /\ ~IsSlug(c, cacheDir))
         => /\ response'.status = 400
            /\ cacheDir'[CATEGORY_OVERRIDES_PATH] = cacheDir[CATEGORY_OVERRIDES_PATH]]_vars

\* C8: a stored override that is no slug of the definition set counts as
\* absent: the category is the one resolved without it, its source is auto,
\* and the request succeeds.
InvalidStoredOverrideIgnored ==
  /\ \A t \in TxPool, k \in {j \in Keys(Overrides) : InvalidOverride(j)} :
       /\ resolve_transaction_category(k, t, Overrides, cacheDir)
            = resolve_transaction_category(k, t, Pop(Overrides, k), cacheDir)
       /\ resolve_transaction_category(k, t, Overrides, cacheDir)[2] = "auto"
  /\ HasData =>
       /\ response.status = 200
       /\ \A i \in DOMAIN Transactions :
            InvalidOverride(Transactions[i].duplicateGroupKey) =>
              /\ <<Transactions[i].category, Transactions[i].categorySource>>
                   = resolve_transaction_category(
                       Transactions[i].duplicateGroupKey, Transactions[i],
                       Pop(Overrides, Transactions[i].duplicateGroupKey), cacheDir)
              /\ Transactions[i].categorySource = "auto"

\* a result with a transaction whose key has a stored override of a category
\* that is no longer defined
InvalidStoredOverrideWitness ==
  /\ HasData
  /\ \E i \in DOMAIN Transactions : InvalidOverride(Transactions[i].duplicateGroupKey)

\* C9, as stated: the members of a group carry the same category and the
\* same category source.
GroupMembersShareCategory ==
  HasData =>
    \A i, j \in DOMAIN Transactions :
      Transactions[i].duplicateGroupKey = Transactions[j].duplicateGroupKey
        => /\ Transactions[i].category = Transactions[j].category
           /\ Transactions[i].categorySource = Transactions[j].categorySource

\* the automatic category of a transaction, "others" when it is not defined
AutoCategory(tx) ==
  IF auto_categorize_transaction(tx) \in LabelMap THEN auto_categorize_transaction(tx)
  ELSE "others"

\* C9, amended: the category is resolved for every member with the key of the
\* group: under a valid override all members carry its category with source
\* manual, otherwise each member carries its own automatic category with
\* source auto; the collapsed entry carries the category and source of its
\* first member.
GroupMembersResolvedEach ==
  HasData =>
    \A g \in DOMAIN Collapsed :
      /\ \A m \in DOMAIN Collapsed[g].transactions :
           IF ValidOverride(Collapsed[g].duplicateGroupKey)
           THEN /\ Collapsed[g].transactions[m].category
                     = Get(Overrides, Collapsed[g].duplicateGroupKey)
                /\ Collapsed[g].transactions[m].categorySource = "manual"
           ELSE /\ Collapsed[g].transactions[m].category
                     = AutoCategory(Collapsed[g].transactions[m])
                /\ Collapsed[g].transactions[m].categorySource = "auto"
      /\ Collapsed[g].category = Collapsed[g].transactions[1].category
      /\ Collapsed[g].categorySource = Collapsed[g].transactions[1].categorySource

\* a result with a group whose members carry different categories
MixedGroupWitness ==
  /\ HasData
  /\ \E g \in DOMAIN Collapsed :
       \E m, n \in DOMAIN Collapsed[g].transactions :
         Collapsed[g].transactions[m].category # Collapsed[g].transactions[n].category

\* C10: only a request to assign a category changes the stored overrides.
OnlyAssignChangesOverrides ==
  [][load_category_overrides(cacheDir') # load_category_overrides(cacheDir)
       => \E k \in GroupKeyInputs, c \in CategoryInputs : assign_category(k, c)]_vars

(***************************************************************************)
(* Properties of a run in which a document cannot be processed.             *)
(***************************************************************************)
\* the per-file summary of a result has one entry for every file, in scan order
EntryOfEachFile(summaries, pdf_files) ==
  /\ Len(summaries) = Len(pdf_files)
  /\ \A i \in DOMAIN summaries : summaries[i].filename = FileName(pdf_files[i])

Failed(entry) == ~IsNone(entry.error)

\* the sequence without its i-th element
Without(s, i) == SubSeq(s, 1, i - 1) \o SubSeq(s, i + 1, Len(s))

\* the result for a folder in which the i-th file of the scan is not there
ResultWithout(i, force_refresh) ==
  combine_all_transactions(Without(order, i), files, cacheDir, newer, force_refresh).result

\* the result is the one of the folder without its i-th file, apart from the
\* entry of that file in the per-file summary
AsIfAbsent(data, i, without) ==
  /\ data.transactions = without.transactions
  /\ data.collapsedTransactions = without.collapsedTransactions
  /\ data.duplicateGroups = without.duplicateGroups
  /\ Without(data.summary.files, i) = without.summary.files

\* C12: a file that cannot be processed does not abort the run: the request
\* is answered, the per-file summary has an entry for every file, the entry
\* of a failed file has count 0 and an error marker, no transaction comes
\* from that file, and the result is otherwise the one of the folder without
\* that file.  A file that cannot be read fails whenever the cache is not used.
FailedFileLeavesSiblings ==
  [][\A force \in BOOLEAN :
       Combine(force) =>
         /\ response'.status = 200
         /\ EntryOfEachFile(Val(response'.data).summary.files, order)
         /\ \A i \in DOMAIN order :
              /\ (force /\ ExtractRaises(order[i], files))
                   => Failed(Val(response'.data).summary.files[i])
              /\ Failed(Val(response'.data).summary.files[i]) =>
                   /\ Val(response'.data).summary.files[i].count = 0
                   /\ \A j \in DOMAIN Val(response'.data).transactions :
                        Val(response'.data).transactions[j].sourceFile # FileName(order[i])
                   /\ AsIfAbsent(Val(response'.data), i, ResultWithout(i, force))]_vars

\* a result in which a file failed after the transactions of another file
\* had been collected
FailedFileWitness ==
  /\ HasData
  /\ Len(Transactions) > 0
  /\ \E i, j \in DOMAIN Data.summary.files :
       /\ j < i
       /\ Failed(Data.summary.files[i])
       /\ Data.summary.files[j].count > 0

(***************************************************************************)
(* Properties of requests served at the same time.                          *)
(***************************************************************************)
\* the call of the thread has returned after it saved a category for its key
Assigned(t) ==
  /\ inflight[t].pc = "returned"
  /\ inflight[t].status = 200
  /\ IsWrite(inflight[t].category)

\* C11: the calls of set_category_override do not interleave: once two calls
\* that assign categories to different keys have both returned, the stored
\* overrides hold both assignments.
NoLostOverride ==
  \A t, u \in Threads :
    (Assigned(t) /\ Assigned(u) /\ inflight[t].group_key # inflight[u].group_key)
      => /\ inflight[t].group_key \in Keys(Overrides)
         /\ Get(Overrides, inflight[t].group_key)
              = Str(Lower(Strip(inflight[t].category.chars)))


(***************************************************************************)
(* Properties of the loop of extract_transactions.                          *)
(***************************************************************************)
\* the blocks before block k (from 1) that parsed and have a balance
Exposing(k) ==
  {j \in 1..(k - 1) :
     /\ ~IsNone(Parsed(all_transaction_lines[j], passed[j]))
     /\ ~IsNone(Balance(all_transaction_lines[j]))}

\* the balance of the latest of them, None when there is none
Carried(k) ==
  IF Exposing(k) = {} THEN None
  ELSE Balance(all_transaction_lines[CHOOSE j \in Exposing(k) : \A i \in Exposing(k) : i <= j])

\* C13: the running balance is threaded in block order: the first block is
\* parsed without a previous balance, and each later block is parsed with the
\* balance of the latest earlier block that parsed and has a balance; blocks
\* that do not parse or have no balance change nothing, and the balance is
\* never forgotten.
BalanceThreadedInOrder ==
  /\ Len(passed) = taken
  /\ \A k \in 1..taken : passed[k] = Carried(k)
  /\ previous_balance = Carried(taken + 1)

\* a block was parsed with a balance carried past the block before it, which
\* did not parse or has no balance
BalanceCarriedWitness ==
  \E k \in 3..taken :
    /\ ~IsNone(passed[k])
    /\ (k - 1) \notin Exposing(k)
    /\ (k - 2) \in Exposing(k)
    /\ passed[k] = Balance(all_transaction_lines[k - 2])

\* the amounts a block has after its value date, the transaction amount
\* first and the balance last
ColumnsOf(b) ==
  IF Len(HdfcDates(b, 0)) < 2 THEN <<>>
  ELSE SelectSeq(HdfcAmounts(b, 0), LAMBDA m : m.start > HdfcDates(b, 0)[2].end)
\* the blocks in columns with one amount besides the balance and no
\* instrument code, with that amount, the balance, and the number of
\* characters from the end of the value date to the amount
OneAmountBlocks ==
  {[block |-> b,
    amount |-> Group(b, ColumnsOf(b)[1]),
    balance |-> Group(b, ColumnsOf(b)[2]),
    spacing |-> ColumnsOf(b)[1].start - HdfcDates(b, 0)[2].end,
    words |-> is_likely_credit(Lower(b))] :
     b \in {c \in BlockPool : Len(ColumnsOf(c)) = 2 /\ InstrumentType(Upper(c)) = "UNKNOWN"}}
OneAmountBlock(b) == \E o \in OneAmountBlocks : o.block = b
Columns(b) == CHOOSE o \in OneAmountBlocks : o.block = b
CandidateAmount(b) == Num(Columns(b).amount)
NewBalance(b) == Num(Columns(b).balance)
\* the balance of the block differs from the previous balance by the amount
DeltaMatches(b, previous) ==
  /\ ~IsNone(previous)
  /\ Abs(NewBalance(b) - Val(previous)) = CandidateAmount(b)
\* the block was parsed, with this previous balance, to a transaction of the type
TypedAs(b, previous, type) ==
  /\ ~IsNone(Parsed(b, previous))
  /\ Val(Parsed(b, previous)).type = type

\* C14: a block with one amount besides the balance and no instrument code,
\* whose balance differs from the carried previous balance by the amount, is
\* a credit when the balance went up and a debit when it went down, whatever
\* its words and the spacing of its columns.
DeltaDecidesType ==
  \A k \in 1..taken :
    (OneAmountBlock(all_transaction_lines[k]) /\ DeltaMatches(all_transaction_lines[k], passed[k]))
      => TypedAs(all_transaction_lines[k], passed[k],
                 IF NewBalance(all_transaction_lines[k]) > Val(passed[k]) THEN "CREDIT" ELSE "DEBIT")

AmountSpacing(b) == Columns(b).spacing
\* the amount and the balance are both between 1.00 and 10,000,000.00
BothInRange(b) ==
  Between(Columns(b).amount, 1, 10000000) /\ Between(Columns(b).balance, 1, 10000000)

TagLists == {<<>>} \cup {<<a>> : a \in {"subscription", "upi"}}
              \cup {<<a, b>> : a, b \in {"subscription", "upi"}}

Tagged(entry) == "subscription" \in Range(entry.tags)

\* C16: the tags hold "subscription" exactly when isSubscription is true:
\* whatever tags a transaction came with, and in the combined result for
\* every transaction and every collapsed entry.
SubscriptionTagFollowsFlag ==
  /\ \A tags \in TagLists, flag \in BOOLEAN :
       ("subscription" \in Range(SubscriptionTags(tags, flag))) <=> flag
  /\ HasData =>
       /\ \A i \in DOMAIN Transactions : Tagged(Transactions[i]) <=> Transactions[i].isSubscription
       /\ \A i \in DOMAIN Collapsed : Tagged(Collapsed[i]) <=> Collapsed[i].isSubscription

\* a result with a subscription and another transaction in one group, whose
\* collapsed entry has the tag, and with a collapsed entry without the tag
SubscriptionTagWitness ==
  /\ HasData
  /\ \E i, j \in DOMAIN Transactions :
       /\ Transactions[i].duplicateGroupKey = Transactions[j].duplicateGroupKey
       /\ Tagged(Transactions[i]) /\ ~Tagged(Transactions[j])
  /\ \E i, j \in DOMAIN Collapsed :
       /\ Collapsed[i].duplicateCount >= 2 /\ Tagged(Collapsed[i])
       /\ ~Tagged(Collapsed[j]) /\ ~Collapsed[j].isSubscription

\* the names of the files the members of a collapsed entry come from
MemberFiles(entry) == {entry.transactions[i].sourceFile : i \in DOMAIN entry.transactions}

\* C17: the sourceFile of a collapsed entry is the name of the file when its
\* members come from one file and "Multiple (N files)" when they come from
\* N >= 2 files; two transactions of one date and amount from two files are
\* one entry with duplicateCount 2 and sourceFile "Multiple (2 files)".
SourceFileDisplay ==
  HasData =>
    /\ \A i \in DOMAIN Collapsed :
         /\ Cardinality(MemberFiles(Collapsed[i])) = 1 => Collapsed[i].sourceFile \in MemberFiles(Collapsed[i])
         /\ Cardinality(MemberFiles(Collapsed[i])) >= 2 =>
              Collapsed[i].sourceFile
                = "Multiple (" \o ToString(Cardinality(MemberFiles(Collapsed[i]))) \o " files)"
    /\ \A i, j \in DOMAIN Transactions :
         (/\ i # j
          /\ Transactions[i].sourceFile # Transactions[j].sourceFile
          /\ Groupable(Transactions[i]) /\ Groupable(Transactions[j])
          /\ Transactions[i].date = Transactions[j].date
          /\ Transactions[i].amountValue = Transactions[j].amountValue
          /\ KeyCount(Transactions, Transactions[i].duplicateGroupKey) = 2)
           => \E c \in DOMAIN Collapsed :
                /\ Collapsed[c].duplicateGroupKey = Transactions[i].duplicateGroupKey
                /\ Collapsed[c].duplicateGroupKey = Transactions[j].duplicateGroupKey
                /\ Collapsed[c].duplicateCount = 2
                /\ Collapsed[c].sourceFile = "Multiple (2 files)"

\* a result with an entry of two transactions from two files and an entry
\* whose members come from one file
TwoFilesWitness ==
  /\ HasData
  /\ \E i, j \in DOMAIN Collapsed :
       /\ Collapsed[i].duplicateCount = 2
       /\ Cardinality(MemberFiles(Collapsed[i])) = 2
       /\ Collapsed[i].sourceFile = "Multiple (2 files)"
       /\ Cardinality(MemberFiles(Collapsed[j])) = 1
       /\ Collapsed[j].sourceFile \in MemberFiles(Collapsed[j])

(***************************************************************************)
(* The reason of a subscription.                                            *)
(***************************************************************************)
\* detection texts: a merchant alone, with a keyword, with a pattern, the
\* residual heuristics, a pattern that needs its word boundary, and no signal
DetectionTexts ==
  { <<>>, <<"S","W","I","G","G","Y">>, <<"N","E","T","F","L","I","X">>, <<"S","P","O","T","I","F","Y"," ","N","E","T","F","L","I","X">>, <<"N","E","T","F","L","I","X"," ","S","U","B","S","C","R","I","P","T","I","O","N">>,
    <<"S","U","B","S","C","R"," ","F","E","E">>, <<"R","E","N","E","W","A","L"," ","O","F"," ","M","E","M","B","E","R","S","H","I","P">>, <<"S","I","/","A","C","H"," ","N","E","T","F","L","I","X">>,
    <<"U","P","I","A","U","T","O"," ","D","E","B","I","T"," ","N","E","T","F","L","I","X">>, <<"R","E","C","U","R","R","I","N","G"," ","P","A","Y","M","E","N","T">>, <<"A","U","T","O"," ","D","E","B","I","T">>,
    <<"X","S","I","/","A","C","H">>, <<"S","T","A","N","D","I","N","G"," ","I","N","S","T"," ","1","2">>, <<"S","U","B","-","1","2","3">>, <<"S","U","B"," ","1","2","3"," ","S","I","/">> }

\* the checks of detect_subscription in their fixed order, each with the
\* reason it stands for and whether the text matches it
KeywordChecks(text) ==
  [i \in DOMAIN SUBSCRIPTION_KEYWORDS |->
     [matched |-> Contains(text, SUBSCRIPTION_KEYWORDS[i]),
      reason |-> "keyword:" \o Str(Lower(SUBSCRIPTION_KEYWORDS[i]))]]

RegexChecks(text) ==
  [i \in DOMAIN SUBSCRIPTION_REGEXES |->
     [matched |-> RegexSearch(SUBSCRIPTION_REGEXES[i], text),
      reason |-> "pattern:" \o SUBSCRIPTION_REGEXES[i].pattern]]

MerchantChecks(text) ==
  [i \in DOMAIN SUBSCRIPTION_MERCHANTS |->
     [matched |-> Contains(text, SUBSCRIPTION_MERCHANTS[i]),
      reason |-> "merchant:" \o Str(Lower(SUBSCRIPTION_MERCHANTS[i]))]]

HeuristicChecks(text) ==
  << [matched |-> Contains(text, <<"A","U","T","O">>)
                    /\ (Contains(text, <<"P","A","Y">>) \/ Contains(text, <<"D","E","B","I","T">>)),
      reason |-> "heuristic:autopay"],
     [matched |-> Contains(text, <<"S","I","/">>) \/ Contains(text, <<"S","T","A","N","D","I","N","G"," ","I","N","S","T">>),
      reason |-> "heuristic:standing_instruction"],
     [matched |-> Contains(text, <<"S","U","B"," ">>) \/ Contains(text, <<"S","U","B","-">>),
      reason |-> "heuristic:subscription_shorthand"] >>

CheckOrder(text) ==
  KeywordChecks(text) \o RegexChecks(text) \o MerchantChecks(text) \o HeuristicChecks(text)

Matching(checks) == {i \in DOMAIN checks : checks[i].matched}

FirstOf(checks) ==
  IF Matching(checks) = {} THEN <<FALSE, "">>
  ELSE <<TRUE, checks[CHOOSE i \in Matching(checks) : \A j \in Matching(checks) : i <= j].reason>>

FirstMatchingCheck(text) == FirstOf(CheckOrder(text))

NoKeywordOrRegex(text) ==
  /\ Matching(KeywordChecks(text)) = {}
  /\ Matching(RegexChecks(text)) = {}

\* what the claim expects of each detection text and of each transaction
ExpectedOfTexts == {<<text, FirstMatchingCheck(text)>> : text \in DetectionTexts}
ExpectedOfPool ==
  {<<Detected(t), FirstMatchingCheck(_prepare_detection_text(Detected(t)))>> : t \in TxPool}
FoundInTexts == {<<text, DetectSubscription(text)>> : text \in DetectionTexts}
NetflixTexts ==
  {text \in DetectionTexts : Contains(text, <<"N","E","T","F","L","I","X">>) /\ NoKeywordOrRegex(text)}

\* C18: detect_subscription answers with the reason of the first matching
\* check in the order keywords, patterns, merchants, heuristics (and with
\* (false, "") when none matches); a text that contains NETFLIX and matches no
\* keyword and no pattern gives (true, "merchant:netflix"). In the combined
\* result every transaction carries that answer.
ReasonIsFirstMatchingCheck ==
  /\ FoundInTexts = ExpectedOfTexts
  /\ \A text \in NetflixTexts : DetectSubscription(text) = <<TRUE, "merchant:netflix">>
  /\ HasData =>
       \A i \in DOMAIN Transactions :
         <<Transactions[i].isSubscription, Transactions[i].subscriptionReason>>
           = Get(ExpectedOfPool, Detected(Transactions[i]))

\* a result with a NETFLIX transaction flagged for its merchant and a
\* transaction that no check matches, while the detection texts exercise a
\* keyword before a merchant, a pattern before a merchant and each heuristic
ReasonWitness ==
  /\ HasData
  /\ \E i, j \in DOMAIN Transactions :
       /\ Contains(_prepare_detection_text(Detected(Transactions[i])), <<"N","E","T","F","L","I","X">>)
       /\ Transactions[i].isSubscription
       /\ Transactions[i].subscriptionReason = "merchant:netflix"
       /\ ~Transactions[j].isSubscription
       /\ Transactions[j].subscriptionReason = ""
  /\ Cardinality(NetflixTexts) >= 2
  /\ {p[2][2] : p \in FoundInTexts} =
       {"keyword:subscription", "keyword:subscr", "pattern:\\bSI\\s*/\\s*ACH\\b",
        "keyword:membership", "keyword:recurring",
        "pattern:\\bUPI[-\\s]?AUTO(?:PAY| DEBIT)\\b",
        "merchant:netflix", "heuristic:autopay",
        "heuristic:standing_instruction", "heuristic:subscription_shorthand", ""}

(***************************************************************************)
(* Normalising what was normalised.                                         *)
(***************************************************************************)
\* date texts: every format, days and months at their ends, two-digit years
\* on both sides of the pivot, four-digit years from 0000 to 9999, with and
\* without an ordinal suffix, and the texts no format reads
DateTexts ==
  {DateText(f, d, m, y, s) :
     f \in Range(date_formats), d \in {1, 29, 31}, m \in {2, 12},
     y \in {0, 24, 49, 68, 69, 999, 1000, 2024, 9999}, s \in {"", "st"}}
    \cup {EmptyDate, DateText("other", 1, 2, 999, "")}

\* the decimal digits of a natural number
RECURSIVE DecimalDigits(_)
DecimalDigits(n) ==
  IF n < 10 THEN <<DigitSeq[n + 1]>>
  ELSE Append(DecimalDigits(n \div 10), DigitSeq[(n % 10) + 1])

\* str(value) of a float with at most two decimals, given in hundredths:
\* the shortest decimal text, with at least one decimal
FloatText(c) ==
  LET mag == IF c < 0 THEN 0 - c ELSE c
      frac == IF mag % 10 = 0 THEN <<DigitSeq[((mag % 100) \div 10) + 1]>>
              ELSE <<DigitSeq[((mag % 100) \div 10) + 1], DigitSeq[(mag % 10) + 1]>>
  IN  (IF c < 0 THEN <<"-">> ELSE <<>>) \o DecimalDigits(mag \div 100) \o <<".">> \o frac

AmountTexts ==
  { <<>>, NA, <<"-">>, <<".">>, <<"1",".","2",".","3">>, <<"5","-","5">>, <<"0">>, <<"0",".","0","0">>, <<"2","5","0",".","0","0">>,
    <<"R","s","2","5","0",".","0","0">>, <<"9",",","7","5","0",".","0","0">>, <<"1",",","2","3","4",".","5","6","7">>, <<"1",",","2","3","4",".","5","6","1">>, <<"-","5">>, <<"-","0",".","1","0">>,
    <<".","5">>, <<"7",".">>, <<"1","0","0","0","0","0","0","0",".","0","0">>, <<"0",".","0","0","4">>, <<"1","2",".","3">> }

DateIdempotent(date_str) ==
  ~IsNone(normalize_date_string(date_str)) =>
    normalize_date_string(Val(normalize_date_string(date_str)))
      = normalize_date_string(date_str)

AmountIdempotent(amount_str) ==
  ~IsNone(normalize_amount_value(amount_str)) =>
    normalize_amount_value(FloatText(Val(normalize_amount_value(amount_str))))
      = normalize_amount_value(amount_str)

NormalizedDates == {d \in DateTexts : ~IsNone(normalize_date_string(d))}
NotIdempotentDates == {d \in DateTexts : ~DateIdempotent(d)}
NotIdempotentAmounts == {a \in AmountTexts : ~AmountIdempotent(a)}

\* the date of a parsed transaction is the output of normalize_date_string
HasNormalizedDate(tx) == Some(tx.date) = normalize_date_string(tx.originalDate)

\* C19: normalising a non-null output of normalize_date_string gives the same
\* ISO date, and normalising the text of a non-null output of
\* normalize_amount_value gives the same value: for the date and amount texts
\* above, and for the normalised date and the amount value of every
\* transaction the reader has parsed.
NormalizersIdempotent ==
  /\ NotIdempotentDates = {}
  /\ NotIdempotentAmounts = {}
  /\ \A i \in DOMAIN parsed_transactions :
       /\ HasNormalizedDate(parsed_transactions[i]) =>
            normalize_date_string(parsed_transactions[i].date)
              = Some(parsed_transactions[i].date)
       /\ ~IsNone(parsed_transactions[i].amountValue) =>
            normalize_amount_value(FloatText(Val(parsed_transactions[i].amountValue)))
              = parsed_transactions[i].amountValue

\* the same for amounts and for dates of the years 1000 to 9999
FourDigitYear(date_str) ==
  \/ IsNone(normalize_date_string(date_str))
  \/ Val(normalize_date_string(date_str)).y >= 1000

NotIdempotentFromYear1000 == {d \in NotIdempotentDates : FourDigitYear(d)}

IdempotentFromYear1000 ==
  /\ NotIdempotentFromYear1000 = {}
  /\ NotIdempotentAmounts = {}
  /\ \A i \in DOMAIN parsed_transactions :
       /\ (HasNormalizedDate(parsed_transactions[i]) /\ FourDigitYear(parsed_transactions[i].originalDate)) =>
            normalize_date_string(parsed_transactions[i].date)
              = Some(parsed_transactions[i].date)
       /\ ~IsNone(parsed_transactions[i].amountValue) =>
            normalize_amount_value(FloatText(Val(parsed_transactions[i].amountValue)))
              = parsed_transactions[i].amountValue

(***************************************************************************)
(* The date field of an emitted transaction.                                *)
(***************************************************************************)
\* the date text the extraction patterns match in each block
MatchedDates == {<<b, ExtractedDate(b)>> : b \in BlockPool}
MatchedDate(b) == Get(MatchedDates, b)

\* a "%Y-%m-%d" text of a calendar date
ValidIsoDate(date) == Strptime(date, "%Y-%m-%d")

\* what parse_with_ai gave for the k-th block
Emitted(k) == Parsed(all_transaction_lines[k], passed[k])

DateFieldRecovered(b, tx) ==
  /\ tx.date = EmptyDate \/ ValidIsoDate(tx.date)
  /\ tx.originalDate = (IF IsNone(MatchedDate(b)) THEN EmptyDate ELSE Val(MatchedDate(b)))

\* C20: in every transaction that parse_with_ai emits, the date field is
\* empty or a valid ISO calendar date and originalDate is the text the
\* extraction pattern matched, so a matched text that is no calendar date is
\* never in the date field.
UnparseableDateLeftEmpty ==
  /\ \A k \in 1..taken :
       ~IsNone(Emitted(k)) => DateFieldRecovered(all_transaction_lines[k], Val(Emitted(k)))
  /\ \A i \in DOMAIN parsed_transactions :
       parsed_transactions[i].date = EmptyDate \/ ValidIsoDate(parsed_transactions[i].date)

\* the same for the transactions kept through combine_all_transactions
CombinedDateLeftEmpty ==
  HasData =>
    \A i \in DOMAIN Transactions :
      Transactions[i].date = EmptyDate \/ ValidIsoDate(Transactions[i].date)

\* originalDate alone: it is the matched text in every emitted transaction
OriginalDateKept ==
  \A k \in 1..taken :
    ~IsNone(Emitted(k)) =>
      Val(Emitted(k)).originalDate
        = (IF IsNone(MatchedDate(all_transaction_lines[k])) THEN EmptyDate
           ELSE Val(MatchedDate(all_transaction_lines[k])))

(***************************************************************************)
(* Instrument codes.                                                        *)
(***************************************************************************)
\* the instrument code a block shows: the credit prefix, the debit prefix
\* without a credit prefix, or none
InstrumentCodes ==
  {<<b, IF Contains(Upper(b), <<"A","C","H","C","-">>) THEN "credit"
        ELSE IF Contains(Upper(b), <<"A","C","H","D","-">>) /\ ~Contains(Upper(b), <<"A","C","H"," ","C","-">>) THEN "debit"
        ELSE "none">> : b \in BlockPool}
InstrumentCode(b) == Get(InstrumentCodes, b)

\* the blocks with an instrument code, one amount and a balance: the amount,
\* the balance, the characters from the value date to the amount, and
\* whether the block has credit vocabulary
CodedBlocks ==
  {[block |-> b,
    amount |-> Num(Group(b, ColumnsOf(b)[1])),
    balance |-> Num(Group(b, ColumnsOf(b)[2])),
    spacing |-> ColumnsOf(b)[1].start - HdfcDates(b, 0)[2].end,
    words |-> is_likely_credit(Lower(b))] :
     b \in {c \in BlockPool : InstrumentCode(c) # "none" /\ Len(ColumnsOf(c)) = 2}}
Coded(b) == CHOOSE o \in CodedBlocks : o.block = b

\* the balance of a coded block went up, or down, by its amount
WentUp(b, previous) ==
  /\ \E o \in CodedBlocks : o.block = b
  /\ ~IsNone(previous) /\ Coded(b).balance - Val(previous) = Coded(b).amount
WentDown(b, previous) ==
  /\ \E o \in CodedBlocks : o.block = b
  /\ ~IsNone(previous) /\ Val(previous) - Coded(b).balance = Coded(b).amount

\* C21: a block with the credit-instrument prefix ACHC- is typed Credit and a
\* block with the debit-instrument prefix ACHD- and no credit prefix is typed
\* Debit, whatever the columns, the carried balance and the words say.
InstrumentCodeDecidesType ==
  \A k \in 1..taken :
    ~IsNone(Emitted(k)) =>
      /\ InstrumentCode(all_transaction_lines[k]) = "credit" => Val(Emitted(k)).type = "CREDIT"
      /\ InstrumentCode(all_transaction_lines[k]) = "debit" => Val(Emitted(k)).type = "DEBIT"

\* a credit code typed Credit where the balance went down by the amount, and a
\* debit code typed Debit where it went up by the amount, the amount is far
\* from the value date and the block has credit words
InstrumentCodeWitness ==
  \E k, j \in 1..taken :
    /\ InstrumentCode(all_transaction_lines[k]) = "credit"
    /\ WentDown(all_transaction_lines[k], passed[k])
    /\ ~IsNone(Emitted(k)) /\ Val(Emitted(k)).type = "CREDIT"
    /\ InstrumentCode(all_transaction_lines[j]) = "debit"
    /\ WentUp(all_transaction_lines[j], passed[j])
    /\ Coded(all_transaction_lines[j]).spacing > 40
    /\ Coded(all_transaction_lines[j]).words
    /\ ~IsNone(Emitted(j)) /\ Val(Emitted(j)).type = "DEBIT"

(***************************************************************************)
(* The three columns.                                                       *)
(***************************************************************************)
\* the blocks with three or more decimal amounts after the value date: the
\* withdrawal column, the deposit column, and whether the block has an
\* instrument code
ThreeColumnBlocks ==
  {[block |-> b,
    withdrawal |-> Group(b, ColumnsOf(b)[1]),
    deposit |-> Group(b, ColumnsOf(b)[2]),
    coded |-> InstrumentCode(b) # "none"] :
     b \in {c \in BlockPool : Len(ColumnsOf(c)) >= 3}}
ThreeColumns(b) == \E o \in ThreeColumnBlocks : o.block = b
Withdrawal(b) == (CHOOSE o \in ThreeColumnBlocks : o.block = b).withdrawal
Deposit(b) == (CHOOSE o \in ThreeColumnBlocks : o.block = b).deposit
Uncoded(b) == ~(CHOOSE o \in ThreeColumnBlocks : o.block = b).coded

\* the transaction has the amount of the column and, without an instrument
\* code, the type of the column
FromColumn(b, tx, column, type) ==
  /\ tx.amount = WithoutCommas(column)
  /\ Uncoded(b) => tx.type = type

\* C22: in a block with at least three decimal amounts after the value date
\* the first is the withdrawal and the second the deposit; the amount of the
\* transaction is the one that is not zero, and the type is Debit for the
\* withdrawal and Credit for the deposit.
ColumnPositionsDecide ==
  \A k \in 1..taken :
    (ThreeColumns(all_transaction_lines[k]) /\ ~IsNone(Emitted(k))) =>
      /\ Num(Withdrawal(all_transaction_lines[k])) # 0 =>
           FromColumn(all_transaction_lines[k], Val(Emitted(k)),
                      Withdrawal(all_transaction_lines[k]), "DEBIT")
      /\ (Num(Withdrawal(all_transaction_lines[k])) = 0
            /\ Num(Deposit(all_transaction_lines[k])) # 0) =>
           FromColumn(all_transaction_lines[k], Val(Emitted(k)),
                      Deposit(all_transaction_lines[k]), "CREDIT")

\* the same for the blocks whose withdrawal column is not zero
WithdrawalColumnDecides ==
  \A k \in 1..taken :
    (/\ ThreeColumns(all_transaction_lines[k]) /\ ~IsNone(Emitted(k))
     /\ Num(Withdrawal(all_transaction_lines[k])) # 0) =>
      FromColumn(all_transaction_lines[k], Val(Emitted(k)),
                 Withdrawal(all_transaction_lines[k]), "DEBIT")

(***************************************************************************)
(* Whether a block gives a transaction, and of which type.                  *)
(***************************************************************************)
\* the anchors of each block that passes the length and vocabulary checks:
\* whether the date patterns match, whether an amount is found, whether a
\* description is found
Anchors ==
  {[block |-> b,
    date |-> ~IsNone(ExtractedDate(b)),
    amount |-> ~IsNone(HdfcAmount(b, HdfcDates(b, 0), HdfcAmounts(b, 0))),
    description |-> Description(b, HdfcDates(b, 0)) # <<>>] :
     b \in {c \in BlockPool : ~Skipped(c)}}
Passed(b) == \E o \in Anchors : o.block = b
Anchor(b) == CHOOSE o \in Anchors : o.block = b
Resolved(b) == Anchor(b).date \/ Anchor(b).amount \/ Anchor(b).description

\* C26: a block that passed the length and vocabulary checks gives a
\* transaction exactly when its date, its amount or its description is
\* resolved; a block with none of them gives no transaction and the loop
\* goes on.
TransactionIffAnchorResolved ==
  /\ \A k \in 1..taken :
       Passed(all_transaction_lines[k]) =>
         (~IsNone(Emitted(k)) <=> Resolved(all_transaction_lines[k]))
  /\ Len(parsed_transactions) = Cardinality({k \in 1..taken : ~IsNone(Emitted(k))})

\* a block without any anchor was passed over, and after it a block with a
\* date and a description and no amount gave a transaction
NoAnchorWitness ==
  \E k, j \in 1..taken :
    /\ k < j
    /\ Passed(all_transaction_lines[k]) /\ ~Resolved(all_transaction_lines[k])
    /\ IsNone(Emitted(k))
    /\ Passed(all_transaction_lines[j]) /\ ~Anchor(all_transaction_lines[j]).amount
    /\ Anchor(all_transaction_lines[j]).date
    /\ ~IsNone(Emitted(j))
    /\ Len(parsed_transactions) >= 1

\* the path that types each block: its instrument code, its columns after
\* the value date, the number of its amounts, or its words
TypePaths ==
  {[block |-> b,
    path |-> IF HdfcDates(b, 0) = <<>> THEN "words"
             ELSE IF InstrumentCode(b) # "none" \/ Contains(Upper(b), <<"A","C","H"," ","C","-">>)
                     \/ Contains(Upper(b), <<"A","C","H"," ","D","-">>) THEN "code"
             ELSE IF Len(HdfcDates(b, 0)) >= 2 /\ Len(HdfcAmounts(b, 0)) >= 2
                     /\ Len(SelectSeq(ColumnsOf(b), LAMBDA m : Between(Group(b, m), 1, 10000000))) >= 1
                  THEN "columns"
             ELSE IF Len(valid_amounts(b, HdfcAmounts(b, 0))) >= 2 THEN "count"
             ELSE "words"] : b \in BlockPool}
TypePath(b) == (CHOOSE o \in TypePaths : o.block = b).path

\* C30: every transaction of parse_with_ai has the type DEBIT or CREDIT,
\* whichever path typed it.
TypeIsDebitOrCredit ==
  /\ \A k \in 1..taken :
       ~IsNone(Emitted(k)) => Val(Emitted(k)).type \in {"DEBIT", "CREDIT"}
  /\ \A i \in DOMAIN parsed_transactions : parsed_transactions[i].type \in {"DEBIT", "CREDIT"}

\* transactions typed by an instrument code, by the columns and by the words
\* alone, the last a DEBIT by default
TypePathsWitness ==
  \E i, j, k \in 1..taken :
    /\ ~IsNone(Emitted(i)) /\ TypePath(all_transaction_lines[i]) = "code"
    /\ ~IsNone(Emitted(j)) /\ TypePath(all_transaction_lines[j]) = "columns"
    /\ ~IsNone(Emitted(k)) /\ TypePath(all_transaction_lines[k]) = "words"
    /\ ~AnyIn(CREDIT_WORDS, Upper(all_transaction_lines[k]))
    /\ Val(Emitted(k)).type = "DEBIT"

(***************************************************************************)
(* Claims about detect_format and extract_transaction_lines                *)
(***************************************************************************)

\* the rules of detect_format, each on its own
WalletRule(lines) == InText(lines, <<"T","R","A","N","S","A","C","T","I","O","N"," ","S","T","A","T","E","M","E","N","T">>) /\ InText(lines, <<"P","H","O","N","E","P","E">>)
AccountRule(lines) ==
  InText(lines, <<"H","D","F","C"," ","B","A","N","K">>) /\ InText(lines, <<"S","T","A","T","E","M","E","N","T"," ","O","F"," ","A","C","C","O","U","N","T">>) /\ ShortDateIn(lines)
CardRule(lines) == InText(lines, <<"H","D","F","C">>) /\ InText(lines, <<"C","R","E","D","I","T"," ","C","A","R","D">>)
GenericRule(lines) == InText(lines, <<"S","T","A","T","E","M","E","N","T">>)

\* C27: the format of a document is that of the first rule that holds of its
\* text in any letter case, in the order wallet, bank account (with a date of
\* a two-digit year), credit card, any statement; it is unknown when none holds.
FormatIsFirstRule ==
  format_type # NotDetected =>
    format_type =
      IF WalletRule(page_text) THEN "phonepe"
      ELSE IF AccountRule(page_text) THEN "hdfc_account_statement"
      ELSE IF CardRule(page_text) THEN "hdfc_credit_statement"
      ELSE IF GenericRule(page_text) THEN "bank_statement"
      ELSE "unknown"

\* a text of which all four rules hold, none of its markers in capitals, is a
\* wallet statement
AllRulesWitness ==
  /\ WalletRule(page_text) /\ AccountRule(page_text) /\ CardRule(page_text)
  /\ GenericRule(page_text)
  /\ ~\E k \in DOMAIN page_text : Contains(page_text[k], <<"P","H","O","N","E","P","E">>)
  /\ format_type = "phonepe"

\* every format is detected: a bank account that offers a credit card is a
\* bank account when the text holds a date and a credit card when it holds none
FormatsReached ==
  {c[2] : c \in FormatTable} =
    {"phonepe", "hdfc_account_statement", "hdfc_credit_statement", "bank_statement", "unknown"}

\* the vocabulary of a summary: a header of the opening or closing balance,
\* or the counts of debits and credits
SummaryVocabulary(block) ==
  \/ Contains(Upper(block), <<"O","P","E","N","I","N","G"," ","B","A","L","A","N","C","E">>)
  \/ Contains(Upper(block), <<"C","L","O","S","I","N","G"," ","B","A","L","A","N","C","E">>)
  \/ /\ Contains(Upper(block), <<"D","R"," ","C","O","U","N","T">>) \/ Contains(Upper(block), <<"C","R"," ","C","O","U","N","T">>)
     /\ Contains(Upper(block), <<"D","E","B","I","T","S">>) \/ Contains(Upper(block), <<"C","R","E","D","I","T","S">>)

\* C23: no transaction comes from a block whose text in capitals holds the
\* vocabulary of a summary.
SummaryBlocksDiscarded ==
  \A k \in 1..taken : SummaryVocabulary(all_transaction_lines[k]) => IsNone(Emitted(k))

\* the part of it that holds: a block with the header of an opening or
\* closing balance gives no transaction
BalanceHeaderDiscarded ==
  \A k \in 1..taken :
    (\/ Contains(Upper(all_transaction_lines[k]), <<"O","P","E","N","I","N","G"," ","B","A","L","A","N","C","E">>)
     \/ Contains(Upper(all_transaction_lines[k]), <<"C","L","O","S","I","N","G"," ","B","A","L","A","N","C","E">>)) => IsNone(Emitted(k))

\* the blocks that began at line number i of the page
StartedAt(i) ==
  [k \in 1..Cardinality({j \in DOMAIN started : started[j] = i}) |->
     all_transaction_lines[(CHOOSE first \in DOMAIN started :
                              started[first] = i /\ \A j \in DOMAIN started :
                                                      started[j] = i => first <= j) + k - 1]]

\* a line of a bank account statement that begins with a date of a
\* two-digit year and is not passed over as a heading or a summary
DatedLine(i) ==
  /\ format_type = "hdfc_account_statement"
  /\ ShortDateAt(Strip(page_text[i]), 0)
  /\ ~SkippedLine(Strip(page_text[i]))

\* the boundaries of a line: its first date, and every later date with a
\* decimal amount between the boundary before it and itself and an upper-case
\* letter after it
RECURSIVE Boundaries(_, _, _, _)
Boundaries(line, date_matches, k, found) ==
  IF k > Len(date_matches) THEN found
  ELSE IF /\ HdfcAmounts(Slice(line, found[Len(found)], date_matches[k].start), 0) # <<>>
          /\ DateThenUpper(line, date_matches[k].start)
  THEN Boundaries(line, date_matches, k + 1, Append(found, date_matches[k].start))
  ELSE Boundaries(line, date_matches, k + 1, found)
BoundariesOf(line) == Boundaries(line, HdfcDates(line, 0), 2, <<HdfcDates(line, 0)[1].start>>)

\* C24: a line of a bank account statement with several boundaries is split
\* at each of them, and every segment is a block of its own.
PackedLineSplit ==
  \A i \in 1..scanned :
    (DatedLine(i) /\ Len(BoundariesOf(Strip(page_text[i]))) > 1)
      => StartedAt(i) = Segments(Strip(page_text[i]), BoundariesOf(Strip(page_text[i])))

\* the part of it that holds: a line whose second transaction is of another
\* day than the first is split in two blocks
OtherDaySplit ==
  \A i \in 1..scanned :
    (DatedLine(i) /\ page_text[i] = LineTwoDays)
      => StartedAt(i) = Segments(LineTwoDays, BoundariesOf(LineTwoDays))
         /\ Len(StartedAt(i)) = 2

\* the block assembled from line number i and the lines that continue it
AssembledAt(i) ==
  Join(<<" ">>, <<Strip(page_text[i])>> \o Continued(page_text, i + 1, i + 3, FALSE))

\* C25: in a bank account statement every line that begins with a date of a
\* two-digit year, and whose assembled block holds no vocabulary of a summary,
\* is the beginning of a block.
DatedLineStartsBlock ==
  \A i \in 1..scanned :
    (/\ format_type = "hdfc_account_statement"
     /\ ShortDateAt(Strip(page_text[i]), 0)
     /\ ~SummaryVocabulary(AssembledAt(i)))
      => /\ StartedAt(i) # <<>>
         /\ StartedAt(i)[1] = Slice(AssembledAt(i), 0, Len(StartedAt(i)[1]))

\* the part of it that holds: such a line is the beginning of a block unless
\* it holds one of the words of a heading
DatedLineWithoutHeadingWord ==
  \A i \in 1..scanned :
    (DatedLine(i) /\ ~SummaryVocabulary(AssembledAt(i)))
      => /\ StartedAt(i) # <<>>
         /\ StartedAt(i)[1] = Slice(AssembledAt(i), 0, Len(StartedAt(i)[1]))

\* the key of the i-th transaction in a run on its document alone: the index
\* is its place among the transactions of its own file
KeyAlone(txs, i) == GroupKey(txs[i], RankInFile(txs, i) - 1)

\* C28: the duplicateGroupKey of a transaction is the key it has in a run on
\* its document alone, whatever other documents the folder holds.
KeyIndependentOfOtherDocuments ==
  HasData =>
    \A i \in DOMAIN Transactions :
      Transactions[i].duplicateGroupKey = KeyAlone(Transactions, i)

\* the part of it that holds: the key of a transaction with a calendar date
\* and an amount
DatedKeyIndependentOfOtherDocuments ==
  HasData =>
    \A i \in DOMAIN Transactions :
      Groupable(Transactions[i])
        => Transactions[i].duplicateGroupKey = KeyAlone(Transactions, i)

\* C29: after any calls of add_custom_category and set_category_override,
\* every category of the saved overrides is the value of a category that is
\* built in or saved as a custom category.
OverridesAreCategories ==
  \A p \in load_category_overrides(cacheDir) : p[2] \in get_category_label_map(cacheDir)

\* overrides of a built-in and of two custom categories are saved, and the
\* latest call failed
CustomOverrideWitness ==
  /\ {p[2] : p \in load_category_overrides(cacheDir)} = {"fuel", "gym", "pet_care"}
  /\ response.status = 400
====
